---- MODULE Spec2Model ----
(***************************************************************************)
(* YAPB - a packet cursor over caller-owned memory (src/src/yapb.c).       *)
(*                                                                         *)
(* Memory is a set of byte buffers; a pointer is a buffer id and an offset.*)
(* A packet is the record _YAPB_Packet_t.  Every API function is an        *)
(* operator from (memory, packet, arguments) to the values the call leaves *)
(* behind: return code r, packet p, memory m, outputs, and the sets rd/wr  *)
(* of packet-relative offsets whose bytes the call read or wrote.          *)
(*                                                                         *)
(* Integer widths.  TLC integers are 32-bit signed, so a uint32_t is kept  *)
(* as two 16-bit limbs [hi, lo] and a 64-bit pattern as two uint32_t       *)
(* [h, l].  int8/16/32 values are integers.  int64, float and double       *)
(* values are given by their bit patterns (the code moves them with        *)
(* memcpy or a value-preserving cast to the unsigned type).  size_t is     *)
(* 64 bits wide (LP64), so no sum of an offset and a 32-bit length wraps.  *)
(***************************************************************************)
EXTENDS Integers, Sequences, FiniteSets, TLC

\* ------------------------------------------------------------ yapb.h
YAPB_INT8 == 0
YAPB_INT16 == 1
YAPB_INT32 == 2
YAPB_INT64 == 3
YAPB_FLOAT == 4
YAPB_DOUBLE == 5
YAPB_BLOB == 14
YAPB_NESTED_PKT == 15

YAPB_MODE_WRITE == 0
YAPB_MODE_READ == 1
YAPB_HEADER_SIZE == 4

YAPB_ERR_NO_MORE_ELEMENTS == -7
YAPB_ERR_INVALID_PACKET == -6
YAPB_ERR_TYPE_MISMATCH == -5
YAPB_ERR_INVALID_MODE == -4
YAPB_ERR_BUFFER_TOO_SMALL == -3
YAPB_ERR_NULL_PTR == -2
YAPB_ERR_UNKNOWN == -1
YAPB_OK == 0
YAPB_STS_COMPLETE == 1

\* ------------------------------------------------------------ bounds
\* Capacity of the buffer a packet is written into.
BufCap == 13
\* Payload bytes of a received buffer with arbitrary contents.
RawPayload == 5

\* ------------------------------------------------------------ memory
NullPtr == [b |-> "null", o |-> 0]

\* The byte at offset k from ptr.  Outside the allocation the read is
\* undefined; the model returns 0 there and the rd sets record the offset.
Byte(m, ptr, k) ==
  IF ptr.b \in DOMAIN m /\ (ptr.o + k + 1) \in 1..Len(m[ptr.b])
  THEN m[ptr.b][ptr.o + k + 1]
  ELSE 0

\* n bytes starting at offset k from ptr.
Bytes(m, ptr, k, n) == [i \in 1..n |-> Byte(m, ptr, k + i - 1)]

\* memcpy(ptr + k, bytes, Len(bytes)) and the single-byte stores.
Store(m, ptr, k, bytes) ==
  IF ptr.b \in DOMAIN m
  THEN [m EXCEPT ![ptr.b] =
         [i \in 1..Len(@) |->
            IF (i - ptr.o - k) \in 1..Len(bytes) THEN bytes[i - ptr.o - k] ELSE @[i]]]
  ELSE m

\* The offsets k .. k+n-1.
Span(k, n) == k..(k + n - 1)

\* ------------------------------------------------------------ casts
CastU8(v) == v % 256
CastI8(b) == IF b >= 128 THEN b - 256 ELSE b
CastU16(v) == v % 65536
CastI16(w) == IF w >= 32768 THEN w - 65536 ELSE w
\* (uint32_t) of an int32_t, and back.
CastU32(v) == [hi |-> (v \div 65536) % 65536, lo |-> v % 65536]
CastI32(u) == (IF u.hi >= 32768 THEN u.hi - 65536 ELSE u.hi) * 65536 + u.lo
\* (uint32_t) of a size_t.
U32OfSize(n) == [hi |-> (n \div 65536) % 65536, lo |-> n % 65536]
\* A uint32_t widened to size_t.  Exact below 2^30; above, it stands for a
\* value no buffer of the model reaches (it is only ever compared with, or
\* added to, offsets of at most a few dozen bytes, in 64-bit arithmetic).
SizeOfU32(u) == IF u.hi < 16384 THEN u.hi * 65536 + u.lo ELSE 16384 * 65536

\* ------------------------------------------------------------ byte order
\* Faulty variants of the helpers below, each with one plausible slip; the
\* properties at the end are checked to fail under them.
write_u64_words_swapped(val) ==
  <<val.l.hi \div 256, val.l.hi % 256, val.l.lo \div 256, val.l.lo % 256,
    val.h.hi \div 256, val.h.hi % 256, val.h.lo \div 256, val.h.lo % 256>>
read_u16_little_endian(m, ptr, k) == Byte(m, ptr, k + 1) * 256 + Byte(m, ptr, k)

write_u16(val) == <<(val \div 256) % 256, val % 256>>
write_u32_little_endian(val) ==
  <<val.lo % 256, val.lo \div 256, val.hi % 256, val.hi \div 256>>
write_u32(val) == <<val.hi \div 256, val.hi % 256, val.lo \div 256, val.lo % 256>>
write_u64(val) == write_u32(val.h) \o write_u32(val.l)

read_u16(m, ptr, k) == Byte(m, ptr, k) * 256 + Byte(m, ptr, k + 1)
read_u32(m, ptr, k) ==
  [hi |-> Byte(m, ptr, k) * 256 + Byte(m, ptr, k + 1),
   lo |-> Byte(m, ptr, k + 2) * 256 + Byte(m, ptr, k + 3)]
read_u64(m, ptr, k) == [h |-> read_u32(m, ptr, k), l |-> read_u32(m, ptr, k + 4)]

\* ------------------------------------------------------------ packets
\* st: "live" after a successful initialize or load, "uninit" for storage
\* never set up (its fields are indeterminate and never read), "null" for
\* the NULL handle.
UninitPkt ==
  [st |-> "uninit", buffer |-> NullPtr, buffer_size |-> 0, pos |-> 0,
   mode |-> YAPB_MODE_WRITE, error |-> YAPB_OK, finalized |-> FALSE]
NullPkt == [UninitPkt EXCEPT !.st = "null"]

check_complete(p) ==
  IF p.pos >= p.buffer_size THEN YAPB_STS_COMPLETE ELSE YAPB_OK

\* _pop_validate without its last check (the value's bytes fit).
_pop_validate_no_size_check(m, p, outNull, expected, type_size) ==
  IF p.st = "null" \/ outNull THEN
    [r |-> YAPB_ERR_NULL_PTR, p |-> p, rd |-> {}]
  ELSE IF p.error < 0 THEN
    [r |-> p.error, p |-> p, rd |-> {}]
  ELSE IF p.mode # YAPB_MODE_READ THEN
    [r |-> YAPB_ERR_INVALID_MODE, p |-> [p EXCEPT !.error = YAPB_ERR_INVALID_MODE], rd |-> {}]
  ELSE IF p.pos >= p.buffer_size THEN
    [r |-> YAPB_ERR_NO_MORE_ELEMENTS,
     p |-> [p EXCEPT !.error = YAPB_ERR_NO_MORE_ELEMENTS], rd |-> {}]
  ELSE IF Byte(m, p.buffer, p.pos) # expected THEN
    [r |-> YAPB_ERR_TYPE_MISMATCH,
     p |-> [p EXCEPT !.error = YAPB_ERR_TYPE_MISMATCH], rd |-> {p.pos}]
  ELSE
    [r |-> YAPB_OK, p |-> [p EXCEPT !.pos = @ + 1], rd |-> {p.pos}]

\* _pop_validate without the test of the sticky error.
_pop_validate_no_sticky_check(m, p, outNull, expected, type_size) ==
  IF p.st = "null" \/ outNull THEN
    [r |-> YAPB_ERR_NULL_PTR, p |-> p, rd |-> {}]
  ELSE IF p.mode # YAPB_MODE_READ THEN
    [r |-> YAPB_ERR_INVALID_MODE, p |-> [p EXCEPT !.error = YAPB_ERR_INVALID_MODE], rd |-> {}]
  ELSE IF p.pos >= p.buffer_size THEN
    [r |-> YAPB_ERR_NO_MORE_ELEMENTS,
     p |-> [p EXCEPT !.error = YAPB_ERR_NO_MORE_ELEMENTS], rd |-> {}]
  ELSE IF Byte(m, p.buffer, p.pos) # expected THEN
    [r |-> YAPB_ERR_TYPE_MISMATCH,
     p |-> [p EXCEPT !.error = YAPB_ERR_TYPE_MISMATCH], rd |-> {p.pos}]
  ELSE IF p.pos + 1 + type_size > p.buffer_size THEN
    [r |-> YAPB_ERR_INVALID_PACKET,
     p |-> [p EXCEPT !.error = YAPB_ERR_INVALID_PACKET], rd |-> {p.pos}]
  ELSE
    [r |-> YAPB_OK, p |-> [p EXCEPT !.pos = @ + 1], rd |-> {p.pos}]
_pop_validate(m, p, outNull, expected, type_size) ==
  IF p.st = "null" \/ outNull THEN
    [r |-> YAPB_ERR_NULL_PTR, p |-> p, rd |-> {}]
  ELSE IF p.error < 0 THEN
    [r |-> p.error, p |-> p, rd |-> {}]
  ELSE IF p.mode # YAPB_MODE_READ THEN
    [r |-> YAPB_ERR_INVALID_MODE, p |-> [p EXCEPT !.error = YAPB_ERR_INVALID_MODE], rd |-> {}]
  ELSE IF p.pos >= p.buffer_size THEN
    [r |-> YAPB_ERR_NO_MORE_ELEMENTS,
     p |-> [p EXCEPT !.error = YAPB_ERR_NO_MORE_ELEMENTS], rd |-> {}]
  ELSE IF Byte(m, p.buffer, p.pos) # expected THEN
    [r |-> YAPB_ERR_TYPE_MISMATCH,
     p |-> [p EXCEPT !.error = YAPB_ERR_TYPE_MISMATCH], rd |-> {p.pos}]
  ELSE IF p.pos + 1 + type_size > p.buffer_size THEN
    [r |-> YAPB_ERR_INVALID_PACKET,
     p |-> [p EXCEPT !.error = YAPB_ERR_INVALID_PACKET], rd |-> {p.pos}]
  ELSE
    [r |-> YAPB_OK, p |-> [p EXCEPT !.pos = @ + 1], rd |-> {p.pos}]

\* _push_validate without its last check (the element fits).
_push_validate_no_capacity_check(p, valNull, needed) ==
  IF p.st = "null" \/ valNull THEN
    [r |-> YAPB_ERR_NULL_PTR, p |-> p]
  ELSE IF p.error < 0 THEN
    [r |-> p.error, p |-> p]
  ELSE IF p.mode # YAPB_MODE_WRITE \/ p.finalized THEN
    [r |-> YAPB_ERR_INVALID_MODE, p |-> [p EXCEPT !.error = YAPB_ERR_INVALID_MODE]]
  ELSE
    [r |-> YAPB_OK, p |-> p]

\* _push_validate testing the mode only, not p->finalized.
_push_validate_ignores_finalized(p, valNull, needed) ==
  IF p.st = "null" \/ valNull THEN
    [r |-> YAPB_ERR_NULL_PTR, p |-> p]
  ELSE IF p.error < 0 THEN
    [r |-> p.error, p |-> p]
  ELSE IF p.mode # YAPB_MODE_WRITE THEN
    [r |-> YAPB_ERR_INVALID_MODE, p |-> [p EXCEPT !.error = YAPB_ERR_INVALID_MODE]]
  ELSE IF p.pos + needed > p.buffer_size THEN
    [r |-> YAPB_ERR_BUFFER_TOO_SMALL,
     p |-> [p EXCEPT !.error = YAPB_ERR_BUFFER_TOO_SMALL]]
  ELSE
    [r |-> YAPB_OK, p |-> p]
\* _push_validate refusing an element that fits exactly.
_push_validate_rejects_exact_fit(p, valNull, needed) ==
  IF p.st = "null" \/ valNull THEN
    [r |-> YAPB_ERR_NULL_PTR, p |-> p]
  ELSE IF p.error < 0 THEN
    [r |-> p.error, p |-> p]
  ELSE IF p.mode # YAPB_MODE_WRITE \/ p.finalized THEN
    [r |-> YAPB_ERR_INVALID_MODE, p |-> [p EXCEPT !.error = YAPB_ERR_INVALID_MODE]]
  ELSE IF p.pos + needed >= p.buffer_size THEN
    [r |-> YAPB_ERR_BUFFER_TOO_SMALL,
     p |-> [p EXCEPT !.error = YAPB_ERR_BUFFER_TOO_SMALL]]
  ELSE
    [r |-> YAPB_OK, p |-> p]
_push_validate(p, valNull, needed) ==
  IF p.st = "null" \/ valNull THEN
    [r |-> YAPB_ERR_NULL_PTR, p |-> p]
  ELSE IF p.error < 0 THEN
    [r |-> p.error, p |-> p]
  ELSE IF p.mode # YAPB_MODE_WRITE \/ p.finalized THEN
    [r |-> YAPB_ERR_INVALID_MODE, p |-> [p EXCEPT !.error = YAPB_ERR_INVALID_MODE]]
  ELSE IF p.pos + needed > p.buffer_size THEN
    [r |-> YAPB_ERR_BUFFER_TOO_SMALL,
     p |-> [p EXCEPT !.error = YAPB_ERR_BUFFER_TOO_SMALL]]
  ELSE
    [r |-> YAPB_OK, p |-> p]

\* ------------------------------------------------------------ lifecycle
\* YAPB_initialize without the zero-fill of the header.
YAPB_initialize_header_untouched(m, p, buffer, size) ==
  IF p.st = "null" \/ buffer = NullPtr THEN
    [r |-> YAPB_ERR_NULL_PTR, p |-> p, m |-> m, wr |-> {}]
  ELSE IF size < YAPB_HEADER_SIZE THEN
    [r |-> YAPB_ERR_BUFFER_TOO_SMALL, p |-> p, m |-> m, wr |-> {}]
  ELSE
    [r |-> YAPB_OK,
     p |-> [st |-> "live", buffer |-> buffer, buffer_size |-> size,
            pos |-> YAPB_HEADER_SIZE, mode |-> YAPB_MODE_WRITE,
            error |-> YAPB_OK, finalized |-> FALSE],
     m |-> m,
     wr |-> {}]
\* p is the storage behind pkt before the call (NullPkt for pkt == NULL).
YAPB_initialize(m, p, buffer, size) ==
  IF p.st = "null" \/ buffer = NullPtr THEN
    [r |-> YAPB_ERR_NULL_PTR, p |-> p, m |-> m, wr |-> {}]
  ELSE IF size < YAPB_HEADER_SIZE THEN
    [r |-> YAPB_ERR_BUFFER_TOO_SMALL, p |-> p, m |-> m, wr |-> {}]
  ELSE
    [r |-> YAPB_OK,
     p |-> [st |-> "live", buffer |-> buffer, buffer_size |-> size,
            pos |-> YAPB_HEADER_SIZE, mode |-> YAPB_MODE_WRITE,
            error |-> YAPB_OK, finalized |-> FALSE],
     m |-> Store(m, buffer, 0, write_u32(U32OfSize(0))),
     wr |-> Span(0, 4)]

\* YAPB_finalize without the test of p->finalized.
YAPB_finalize_repeatable(m, p, lenNull, out_len) ==
  IF p.st = "null" THEN
    [r |-> YAPB_ERR_NULL_PTR, p |-> p, m |-> m, out_len |-> out_len, wr |-> {}]
  ELSE IF p.mode # YAPB_MODE_WRITE THEN
    [r |-> YAPB_ERR_INVALID_MODE, p |-> p, m |-> m, out_len |-> out_len, wr |-> {}]
  ELSE
    [r |-> YAPB_OK,
     p |-> [p EXCEPT !.finalized = TRUE],
     m |-> Store(m, p.buffer, 0, write_u32(U32OfSize(p.pos))),
     out_len |-> IF lenNull THEN out_len ELSE p.pos,
     wr |-> Span(0, 4)]

\* YAPB_finalize returning the latched error first, as pushes and pops do.
YAPB_finalize_checks_sticky(m, p, lenNull, out_len) ==
  IF p.st = "null" THEN
    [r |-> YAPB_ERR_NULL_PTR, p |-> p, m |-> m, out_len |-> out_len, wr |-> {}]
  ELSE IF p.error < 0 THEN
    [r |-> p.error, p |-> p, m |-> m, out_len |-> out_len, wr |-> {}]
  ELSE IF p.mode # YAPB_MODE_WRITE \/ p.finalized THEN
    [r |-> YAPB_ERR_INVALID_MODE, p |-> p, m |-> m, out_len |-> out_len, wr |-> {}]
  ELSE
    [r |-> YAPB_OK,
     p |-> [p EXCEPT !.finalized = TRUE],
     m |-> Store(m, p.buffer, 0, write_u32(U32OfSize(p.pos))),
     out_len |-> IF lenNull THEN out_len ELSE p.pos,
     wr |-> Span(0, 4)]

\* out_len is the caller's size_t before the call (ignored when lenNull).
YAPB_finalize(m, p, lenNull, out_len) ==
  IF p.st = "null" THEN
    [r |-> YAPB_ERR_NULL_PTR, p |-> p, m |-> m, out_len |-> out_len, wr |-> {}]
  ELSE IF p.mode # YAPB_MODE_WRITE \/ p.finalized THEN
    [r |-> YAPB_ERR_INVALID_MODE, p |-> p, m |-> m, out_len |-> out_len, wr |-> {}]
  ELSE
    [r |-> YAPB_OK,
     p |-> [p EXCEPT !.finalized = TRUE],
     m |-> Store(m, p.buffer, 0, write_u32(U32OfSize(p.pos))),
     out_len |-> IF lenNull THEN out_len ELSE p.pos,
     wr |-> Span(0, 4)]

\* YAPB_load taking the caller's size, not the header's length, as the
\* packet's size.
YAPB_load_keeps_size(m, p, data, size) ==
  IF p.st = "null" \/ data = NullPtr THEN
    [r |-> YAPB_ERR_NULL_PTR, p |-> p, rd |-> {}]
  ELSE IF size < YAPB_HEADER_SIZE THEN
    [r |-> YAPB_ERR_BUFFER_TOO_SMALL, p |-> p, rd |-> {}]
  ELSE
    LET pkt_len == SizeOfU32(read_u32(m, data, 0)) IN
    IF pkt_len > size \/ pkt_len < YAPB_HEADER_SIZE THEN
      [r |-> YAPB_ERR_INVALID_PACKET, p |-> p, rd |-> Span(0, 4)]
    ELSE
      [r |-> YAPB_OK,
       p |-> [st |-> "live", buffer |-> data, buffer_size |-> size,
              pos |-> YAPB_HEADER_SIZE, mode |-> YAPB_MODE_READ,
              error |-> YAPB_OK, finalized |-> FALSE],
       rd |-> Span(0, 4)]
\* rd holds offsets relative to data.
YAPB_load(m, p, data, size) ==
  IF p.st = "null" \/ data = NullPtr THEN
    [r |-> YAPB_ERR_NULL_PTR, p |-> p, rd |-> {}]
  ELSE IF size < YAPB_HEADER_SIZE THEN
    [r |-> YAPB_ERR_BUFFER_TOO_SMALL, p |-> p, rd |-> {}]
  ELSE
    LET pkt_len == SizeOfU32(read_u32(m, data, 0)) IN
    IF pkt_len > size \/ pkt_len < YAPB_HEADER_SIZE THEN
      [r |-> YAPB_ERR_INVALID_PACKET, p |-> p, rd |-> Span(0, 4)]
    ELSE
      [r |-> YAPB_OK,
       p |-> [st |-> "live", buffer |-> data, buffer_size |-> pkt_len,
              pos |-> YAPB_HEADER_SIZE, mode |-> YAPB_MODE_READ,
              error |-> YAPB_OK, finalized |-> FALSE],
       rd |-> Span(0, 4)]

\* ------------------------------------------------------------ queries
YAPB_get_error(p) ==
  IF p.st = "null" THEN YAPB_ERR_NULL_PTR ELSE p.error

\* YAPB_get_buffer without the test of an unfinalized write packet.
YAPB_get_buffer_unfinalized_too(p, lenNull, out_len) ==
  IF p.st = "null" THEN
    [buf |-> NullPtr, len |-> out_len]
  ELSE
    [buf |-> p.buffer,
     len |-> IF lenNull THEN out_len
             ELSE IF p.mode = YAPB_MODE_READ THEN p.buffer_size ELSE p.pos]
\* YAPB_get_buffer reporting the capacity, not the written length, of a
\* finalized write packet.
YAPB_get_buffer_capacity_len(p, lenNull, out_len) ==
  IF p.st = "null" THEN
    [buf |-> NullPtr, len |-> out_len]
  ELSE IF p.mode = YAPB_MODE_WRITE /\ ~p.finalized THEN
    [buf |-> NullPtr, len |-> out_len]
  ELSE
    [buf |-> p.buffer, len |-> IF lenNull THEN out_len ELSE p.buffer_size]
\* buf is the returned pointer; len is the caller's size_t after the call.
YAPB_get_buffer(p, lenNull, out_len) ==
  IF p.st = "null" THEN
    [buf |-> NullPtr, len |-> out_len]
  ELSE IF p.mode = YAPB_MODE_WRITE /\ ~p.finalized THEN
    [buf |-> NullPtr, len |-> out_len]
  ELSE
    [buf |-> p.buffer,
     len |-> IF lenNull THEN out_len
             ELSE IF p.mode = YAPB_MODE_READ THEN p.buffer_size ELSE p.pos]

\* YAPB_check_complete asking for more bytes than the declared length.
YAPB_check_complete_past_boundary(m, data, len) ==
  IF data = NullPtr \/ len < YAPB_HEADER_SIZE THEN FALSE
  ELSE LET pkt_len == SizeOfU32(read_u32(m, data, 0)) IN
       IF pkt_len < YAPB_HEADER_SIZE THEN FALSE ELSE len > pkt_len
YAPB_check_complete(m, data, len) ==
  IF data = NullPtr \/ len < YAPB_HEADER_SIZE THEN FALSE
  ELSE LET pkt_len == SizeOfU32(read_u32(m, data, 0)) IN
       IF pkt_len < YAPB_HEADER_SIZE THEN FALSE ELSE len >= pkt_len

\* ------------------------------------------------------------ push
\* The stores of a push that passed validation: bytes go to p->pos and
\* p->pos advances past them.
Emit(m, p, bytes) ==
  [r |-> YAPB_OK,
   p |-> [p EXCEPT !.pos = @ + Len(bytes)],
   m |-> Store(m, p.buffer, p.pos, bytes),
   wr |-> Span(p.pos, Len(bytes))]

\* A push that failed validation: v is _push_validate's result.
Reject(m, v) == [r |-> v.r, p |-> v.p, m |-> m, wr |-> {}]

YAPB_push_i8(m, p, valNull, val) ==
  LET v == _push_validate(p, valNull, 1 + 1) IN
  IF v.r # YAPB_OK THEN Reject(m, v)
  ELSE Emit(m, p, <<YAPB_INT8, CastU8(val)>>)

YAPB_push_i16(m, p, valNull, val) ==
  LET v == _push_validate(p, valNull, 1 + 2) IN
  IF v.r # YAPB_OK THEN Reject(m, v)
  ELSE Emit(m, p, <<YAPB_INT16>> \o write_u16(CastU16(val)))

YAPB_push_i32(m, p, valNull, val) ==
  LET v == _push_validate(p, valNull, 1 + 4) IN
  IF v.r # YAPB_OK THEN Reject(m, v)
  ELSE Emit(m, p, <<YAPB_INT32>> \o write_u32(CastU32(val)))

\* val is the 64-bit pattern of the int64_t.
YAPB_push_i64(m, p, valNull, val) ==
  LET v == _push_validate(p, valNull, 1 + 8) IN
  IF v.r # YAPB_OK THEN Reject(m, v)
  ELSE Emit(m, p, <<YAPB_INT64>> \o write_u64(val))

\* val is the 32-bit pattern of the float.
YAPB_push_float(m, p, valNull, val) ==
  LET v == _push_validate(p, valNull, 1 + 4) IN
  IF v.r # YAPB_OK THEN Reject(m, v)
  ELSE Emit(m, p, <<YAPB_FLOAT>> \o write_u32(val))

\* val is the 64-bit pattern of the double.
YAPB_push_double(m, p, valNull, val) ==
  LET v == _push_validate(p, valNull, 1 + 8) IN
  IF v.r # YAPB_OK THEN Reject(m, v)
  ELSE Emit(m, p, <<YAPB_DOUBLE>> \o write_u64(val))

\* data is the caller's array (at least len bytes when not dataNull).
YAPB_push_blob(m, p, dataNull, data, len) ==
  IF p.st = "null" THEN
    [r |-> YAPB_ERR_NULL_PTR, p |-> p, m |-> m, wr |-> {}]
  ELSE IF p.error < 0 THEN
    [r |-> p.error, p |-> p, m |-> m, wr |-> {}]
  ELSE IF len > 0 /\ dataNull THEN
    [r |-> YAPB_ERR_NULL_PTR, p |-> p, m |-> m, wr |-> {}]
  ELSE IF p.mode # YAPB_MODE_WRITE \/ p.finalized THEN
    [r |-> YAPB_ERR_INVALID_MODE,
     p |-> [p EXCEPT !.error = YAPB_ERR_INVALID_MODE], m |-> m, wr |-> {}]
  ELSE IF p.pos + 1 + 2 + len > p.buffer_size THEN
    [r |-> YAPB_ERR_BUFFER_TOO_SMALL,
     p |-> [p EXCEPT !.error = YAPB_ERR_BUFFER_TOO_SMALL], m |-> m, wr |-> {}]
  ELSE
    Emit(m, p, <<YAPB_BLOB>> \o write_u16(len) \o
               (IF len > 0 THEN SubSeq(data, 1, len) ELSE <<>>))

YAPB_push_nested(m, p, nested) ==
  LET g == YAPB_get_buffer(nested, FALSE, 0)
      nested_buf == g.buf
      nested_len == g.len
  IN
  IF p.st = "null" \/ nested_buf = NullPtr THEN
    [r |-> YAPB_ERR_NULL_PTR, p |-> p, m |-> m, wr |-> {}]
  ELSE IF p.error < 0 THEN
    [r |-> p.error, p |-> p, m |-> m, wr |-> {}]
  ELSE IF p.mode # YAPB_MODE_WRITE \/ p.finalized THEN
    [r |-> YAPB_ERR_INVALID_MODE,
     p |-> [p EXCEPT !.error = YAPB_ERR_INVALID_MODE], m |-> m, wr |-> {}]
  ELSE IF p.pos + 1 + nested_len > p.buffer_size THEN
    [r |-> YAPB_ERR_BUFFER_TOO_SMALL,
     p |-> [p EXCEPT !.error = YAPB_ERR_BUFFER_TOO_SMALL], m |-> m, wr |-> {}]
  ELSE
    Emit(m, p, <<YAPB_NESTED_PKT>> \o Bytes(m, nested_buf, 0, nested_len))

\* The unsigned wrappers of yapb.h pass the same storage, read as signed.
YAPB_push_u8(m, p, valNull, val) == YAPB_push_i8(m, p, valNull, CastI8(val))
YAPB_push_u16(m, p, valNull, val) == YAPB_push_i16(m, p, valNull, CastI16(val))
\* val is a uint32_t in limbs.
YAPB_push_u32(m, p, valNull, val) == YAPB_push_i32(m, p, valNull, CastI32(val))
YAPB_push_u64(m, p, valNull, val) == YAPB_push_i64(m, p, valNull, val)

\* ------------------------------------------------------------ pop
\* out is the caller's variable before the call; the result's out is that
\* variable after it.  q is the packet once the type byte is consumed.
YAPB_pop_i8(m, p, outNull, out) ==
  LET v == _pop_validate(m, p, outNull, YAPB_INT8, 1)
      q == [v.p EXCEPT !.pos = @ + 1]
  IN
  IF v.r # YAPB_OK THEN [r |-> v.r, p |-> v.p, out |-> out, rd |-> v.rd]
  ELSE [r |-> check_complete(q), p |-> q,
        out |-> CastI8(Byte(m, p.buffer, v.p.pos)),
        rd |-> v.rd \cup Span(v.p.pos, 1)]

YAPB_pop_i16(m, p, outNull, out) ==
  LET v == _pop_validate(m, p, outNull, YAPB_INT16, 2)
      q == [v.p EXCEPT !.pos = @ + 2]
  IN
  IF v.r # YAPB_OK THEN [r |-> v.r, p |-> v.p, out |-> out, rd |-> v.rd]
  ELSE [r |-> check_complete(q), p |-> q,
        out |-> CastI16(read_u16(m, p.buffer, v.p.pos)),
        rd |-> v.rd \cup Span(v.p.pos, 2)]

YAPB_pop_i32(m, p, outNull, out) ==
  LET v == _pop_validate(m, p, outNull, YAPB_INT32, 4)
      q == [v.p EXCEPT !.pos = @ + 4]
  IN
  IF v.r # YAPB_OK THEN [r |-> v.r, p |-> v.p, out |-> out, rd |-> v.rd]
  ELSE [r |-> check_complete(q), p |-> q,
        out |-> CastI32(read_u32(m, p.buffer, v.p.pos)),
        rd |-> v.rd \cup Span(v.p.pos, 4)]

\* out is the 64-bit pattern of the int64_t.
YAPB_pop_i64(m, p, outNull, out) ==
  LET v == _pop_validate(m, p, outNull, YAPB_INT64, 8)
      q == [v.p EXCEPT !.pos = @ + 8]
  IN
  IF v.r # YAPB_OK THEN [r |-> v.r, p |-> v.p, out |-> out, rd |-> v.rd]
  ELSE [r |-> check_complete(q), p |-> q,
        out |-> read_u64(m, p.buffer, v.p.pos),
        rd |-> v.rd \cup Span(v.p.pos, 8)]

\* out is the 32-bit pattern of the float.
YAPB_pop_float(m, p, outNull, out) ==
  LET v == _pop_validate(m, p, outNull, YAPB_FLOAT, 4)
      q == [v.p EXCEPT !.pos = @ + 4]
  IN
  IF v.r # YAPB_OK THEN [r |-> v.r, p |-> v.p, out |-> out, rd |-> v.rd]
  ELSE [r |-> check_complete(q), p |-> q,
        out |-> read_u32(m, p.buffer, v.p.pos),
        rd |-> v.rd \cup Span(v.p.pos, 4)]

\* out is the 64-bit pattern of the double.
YAPB_pop_double(m, p, outNull, out) ==
  LET v == _pop_validate(m, p, outNull, YAPB_DOUBLE, 8)
      q == [v.p EXCEPT !.pos = @ + 8]
  IN
  IF v.r # YAPB_OK THEN [r |-> v.r, p |-> v.p, out |-> out, rd |-> v.rd]
  ELSE [r |-> check_complete(q), p |-> q,
        out |-> read_u64(m, p.buffer, v.p.pos),
        rd |-> v.rd \cup Span(v.p.pos, 8)]

\* YAPB_pop_blob handing out the pointer before the length field is skipped.
YAPB_pop_blob_data_at_length(m, p, dataNull, data, lenNull, len) ==
  IF lenNull THEN
    [r |-> YAPB_ERR_NULL_PTR, p |-> p, data |-> data, len |-> len, rd |-> {}]
  ELSE IF p.pos + 3 > p.buffer_size THEN
    [r |-> YAPB_ERR_INVALID_PACKET,
     p |-> [p EXCEPT !.error = YAPB_ERR_INVALID_PACKET],
     data |-> data, len |-> len, rd |-> {}]
  ELSE
    LET len1 == read_u16(m, p.buffer, p.pos + 1)
        rd1 == Span(p.pos + 1, 2)
        v == _pop_validate(m, p, dataNull, YAPB_BLOB, len1 + 2)
        q == [v.p EXCEPT !.pos = @ + 2 + len1]
    IN
    IF v.r # YAPB_OK THEN
      [r |-> v.r, p |-> v.p, data |-> data, len |-> len1, rd |-> rd1 \cup v.rd]
    ELSE
      [r |-> check_complete(q), p |-> q,
       data |-> [b |-> p.buffer.b, o |-> p.buffer.o + v.p.pos],
       len |-> len1, rd |-> rd1 \cup v.rd]
\* data and len are the caller's variables before the call.  p is a real
\* packet: the function dereferences pkt before any check of it.
YAPB_pop_blob(m, p, dataNull, data, lenNull, len) ==
  IF lenNull THEN
    [r |-> YAPB_ERR_NULL_PTR, p |-> p, data |-> data, len |-> len, rd |-> {}]
  ELSE IF p.pos + 3 > p.buffer_size THEN
    [r |-> YAPB_ERR_INVALID_PACKET,
     p |-> [p EXCEPT !.error = YAPB_ERR_INVALID_PACKET],
     data |-> data, len |-> len, rd |-> {}]
  ELSE
    LET len1 == read_u16(m, p.buffer, p.pos + 1)
        rd1 == Span(p.pos + 1, 2)
        v == _pop_validate(m, p, dataNull, YAPB_BLOB, len1 + 2)
        q == [v.p EXCEPT !.pos = @ + 2 + len1]
    IN
    IF v.r # YAPB_OK THEN
      [r |-> v.r, p |-> v.p, data |-> data, len |-> len1, rd |-> rd1 \cup v.rd]
    ELSE
      [r |-> check_complete(q), p |-> q,
       data |-> [b |-> p.buffer.b, o |-> p.buffer.o + v.p.pos + 2],
       len |-> len1, rd |-> rd1 \cup v.rd]

\* YAPB_pop_nested advancing the parent by the nested payload only, as if
\* the nested header had been consumed with the tag.
YAPB_pop_nested_skips_payload_only(m, p, out) ==
  IF p.pos + YAPB_HEADER_SIZE + 1 > p.buffer_size THEN
    [r |-> YAPB_ERR_INVALID_PACKET,
     p |-> [p EXCEPT !.error = YAPB_ERR_INVALID_PACKET], out |-> out, rd |-> {}]
  ELSE
    LET nested_len == SizeOfU32(read_u32(m, p.buffer, p.pos + 1))
        rd1 == Span(p.pos + 1, 4)
        v == _pop_validate(m, p, out.st = "null", YAPB_NESTED_PKT, nested_len)
        l == YAPB_load(m, out, [b |-> p.buffer.b, o |-> p.buffer.o + v.p.pos], nested_len)
        rd2 == rd1 \cup v.rd \cup {v.p.pos + k : k \in l.rd}
        q == [v.p EXCEPT !.pos = @ + nested_len - YAPB_HEADER_SIZE]
    IN
    IF v.r # YAPB_OK THEN
      [r |-> v.r, p |-> v.p, out |-> out, rd |-> rd1 \cup v.rd]
    ELSE IF l.r # YAPB_OK THEN
      [r |-> l.r, p |-> [v.p EXCEPT !.error = l.r], out |-> l.p, rd |-> rd2]
    ELSE
      [r |-> check_complete(q), p |-> q, out |-> l.p, rd |-> rd2]
\* out is the storage behind the out handle (NullPkt for out == NULL).  p is
\* a real packet: the function dereferences pkt before any check of it.
YAPB_pop_nested(m, p, out) ==
  IF p.pos + YAPB_HEADER_SIZE + 1 > p.buffer_size THEN
    [r |-> YAPB_ERR_INVALID_PACKET,
     p |-> [p EXCEPT !.error = YAPB_ERR_INVALID_PACKET], out |-> out, rd |-> {}]
  ELSE
    LET nested_len == SizeOfU32(read_u32(m, p.buffer, p.pos + 1))
        rd1 == Span(p.pos + 1, 4)
        v == _pop_validate(m, p, out.st = "null", YAPB_NESTED_PKT, nested_len)
        l == YAPB_load(m, out, [b |-> p.buffer.b, o |-> p.buffer.o + v.p.pos], nested_len)
        rd2 == rd1 \cup v.rd \cup {v.p.pos + k : k \in l.rd}
        q == [v.p EXCEPT !.pos = @ + nested_len]
    IN
    IF v.r # YAPB_OK THEN
      [r |-> v.r, p |-> v.p, out |-> out, rd |-> rd1 \cup v.rd]
    ELSE IF l.r # YAPB_OK THEN
      [r |-> l.r, p |-> [v.p EXCEPT !.error = l.r], out |-> l.p, rd |-> rd2]
    ELSE
      [r |-> check_complete(q), p |-> q, out |-> l.p, rd |-> rd2]

\* The unsigned wrappers of yapb.h pass the same storage, written as signed.
YAPB_pop_u8(m, p, outNull, out) ==
  LET x == YAPB_pop_i8(m, p, outNull, CastI8(out)) IN [x EXCEPT !.out = CastU8(@)]
YAPB_pop_u16(m, p, outNull, out) ==
  LET x == YAPB_pop_i16(m, p, outNull, CastI16(out)) IN [x EXCEPT !.out = CastU16(@)]
\* out is a uint32_t in limbs.
YAPB_pop_u32(m, p, outNull, out) ==
  LET x == YAPB_pop_i32(m, p, outNull, CastI32(out)) IN [x EXCEPT !.out = CastU32(@)]
YAPB_pop_u64(m, p, outNull, out) == YAPB_pop_i64(m, p, outNull, out)

\* ------------------------------------------------------------ scan
\* One iteration's switch, at scan_pos just past the type byte: ok, the
\* skip and the offsets read for it.
ScanSkip(m, p, scan_pos, type) ==
  LET data_end == p.buffer_size IN
  CASE type = YAPB_INT8 -> [ok |-> TRUE, skip |-> 1, rd |-> {}]
    [] type = YAPB_INT16 -> [ok |-> TRUE, skip |-> 2, rd |-> {}]
    [] type = YAPB_INT32 -> [ok |-> TRUE, skip |-> 4, rd |-> {}]
    [] type = YAPB_INT64 -> [ok |-> TRUE, skip |-> 8, rd |-> {}]
    [] type = YAPB_FLOAT -> [ok |-> TRUE, skip |-> 4, rd |-> {}]
    [] type = YAPB_DOUBLE -> [ok |-> TRUE, skip |-> 8, rd |-> {}]
    [] type = YAPB_BLOB ->
         IF scan_pos + 2 > data_end THEN [ok |-> FALSE, skip |-> 0, rd |-> {}]
         ELSE [ok |-> TRUE, skip |-> 2 + read_u16(m, p.buffer, scan_pos),
               rd |-> Span(scan_pos, 2)]
    [] type = YAPB_NESTED_PKT ->
         IF scan_pos + YAPB_HEADER_SIZE > data_end THEN [ok |-> FALSE, skip |-> 0, rd |-> {}]
         ELSE [ok |-> TRUE, skip |-> SizeOfU32(read_u32(m, p.buffer, scan_pos)),
               rd |-> Span(scan_pos, 4)]
    [] OTHER -> [ok |-> FALSE, skip |-> 0, rd |-> {}]

\* The while loop of YAPB_get_elem_count from scan_pos on; count is the
\* uint16_t counter, steps the iterations done.
RECURSIVE ScanLoop(_, _, _, _, _)
ScanLoop(m, p, scan_pos, count, steps) ==
  IF ~(scan_pos < p.buffer_size) THEN
    [r |-> YAPB_OK, count |-> count, rd |-> {}, steps |-> steps]
  ELSE
    LET type == Byte(m, p.buffer, scan_pos)
        s == ScanSkip(m, p, scan_pos + 1, type)
        rest == ScanLoop(m, p, scan_pos + 1 + s.skip, (count + 1) % 65536, steps + 1)
    IN
    IF ~s.ok \/ scan_pos + 1 + s.skip > p.buffer_size THEN
      [r |-> YAPB_ERR_INVALID_PACKET, count |-> count,
       rd |-> {scan_pos} \cup s.rd, steps |-> steps + 1]
    ELSE [rest EXCEPT !.rd = @ \cup {scan_pos} \cup s.rd]

\* YAPB_get_elem_count scanning from the cursor, not from the header's end.
YAPB_get_elem_count_from_cursor(m, p, outNull, out_count) ==
  IF p.st = "null" \/ outNull THEN
    [r |-> YAPB_ERR_NULL_PTR, out_count |-> out_count, rd |-> {}]
  ELSE IF p.mode # YAPB_MODE_READ THEN
    [r |-> YAPB_ERR_INVALID_MODE, out_count |-> out_count, rd |-> {}]
  ELSE
    LET s == ScanLoop(m, p, p.pos, 0, 0) IN
    IF s.r # YAPB_OK THEN [r |-> s.r, out_count |-> out_count, rd |-> s.rd]
    ELSE [r |-> YAPB_OK, out_count |-> s.count, rd |-> s.rd]
YAPB_get_elem_count(m, p, outNull, out_count) ==
  IF p.st = "null" \/ outNull THEN
    [r |-> YAPB_ERR_NULL_PTR, out_count |-> out_count, rd |-> {}]
  ELSE IF p.mode # YAPB_MODE_READ THEN
    [r |-> YAPB_ERR_INVALID_MODE, out_count |-> out_count, rd |-> {}]
  ELSE
    LET s == ScanLoop(m, p, YAPB_HEADER_SIZE, 0, 0) IN
    IF s.r # YAPB_OK THEN [r |-> s.r, out_count |-> out_count, rd |-> s.rd]
    ELSE [r |-> YAPB_OK, out_count |-> s.count, rd |-> s.rd]

\* ------------------------------------------------------------ pop_next
\* YAPB_pop_next taking an unrecognised tag for an element without a value:
\* it returns YAPB_OK and the cursor stays where it is.
YAPB_pop_next_unknown_tag_ok(m, p, outNull, out) ==
  IF p.st = "null" \/ outNull THEN
    [r |-> YAPB_ERR_NULL_PTR, p |-> p, out |-> out, rd |-> {}]
  ELSE IF p.error < 0 THEN
    [r |-> p.error, p |-> p, out |-> out, rd |-> {}]
  ELSE IF p.mode # YAPB_MODE_READ THEN
    [r |-> YAPB_ERR_INVALID_MODE,
     p |-> [p EXCEPT !.error = YAPB_ERR_INVALID_MODE], out |-> out, rd |-> {}]
  ELSE IF p.pos >= p.buffer_size THEN
    [r |-> YAPB_ERR_NO_MORE_ELEMENTS,
     p |-> [p EXCEPT !.error = YAPB_ERR_NO_MORE_ELEMENTS], out |-> out, rd |-> {}]
  ELSE
    LET type == Byte(m, p.buffer, p.pos)
        Prim(x, k) ==
          [r |-> x.r, p |-> x.p, rd |-> {p.pos} \cup x.rd,
           out |-> [type |-> type,
                    val |-> IF x.r >= 0 THEN [k |-> k, v |-> x.out] ELSE out.val]]
        b == YAPB_pop_blob(m, p, FALSE, NullPtr, FALSE, 0)
        n == YAPB_pop_nested(m, p, UninitPkt)
    IN
    CASE type = YAPB_INT8 -> Prim(YAPB_pop_i8(m, p, FALSE, 0), "i8")
      [] type = YAPB_INT16 -> Prim(YAPB_pop_i16(m, p, FALSE, 0), "i16")
      [] type = YAPB_INT32 -> Prim(YAPB_pop_i32(m, p, FALSE, 0), "i32")
      [] type = YAPB_INT64 -> Prim(YAPB_pop_i64(m, p, FALSE, 0), "i64")
      [] type = YAPB_FLOAT -> Prim(YAPB_pop_float(m, p, FALSE, 0), "f")
      [] type = YAPB_DOUBLE -> Prim(YAPB_pop_double(m, p, FALSE, 0), "d")
      [] type = YAPB_BLOB ->
           [r |-> b.r, p |-> b.p, rd |-> {p.pos} \cup b.rd,
            out |-> [type |-> type,
                     val |-> IF b.r >= 0
                             THEN [k |-> "blob", v |-> [data |-> b.data, len |-> b.len]]
                             ELSE IF b.rd # {} THEN [k |-> "blob.len", v |-> b.len]
                             ELSE out.val]]
      [] type = YAPB_NESTED_PKT ->
           [r |-> n.r, p |-> n.p, rd |-> {p.pos} \cup n.rd,
            out |-> [type |-> type,
                     val |-> IF n.r >= 0 THEN [k |-> "nested", v |-> n.out] ELSE out.val]]
      [] OTHER ->
           [r |-> YAPB_OK, p |-> p,
            out |-> [out EXCEPT !.type = type], rd |-> {p.pos}]
\* YAPB_pop_next with the YAPB_FLOAT case dispatching to YAPB_pop_double.
YAPB_pop_next_float_as_double(m, p, outNull, out) ==
  IF p.st = "null" \/ outNull THEN
    [r |-> YAPB_ERR_NULL_PTR, p |-> p, out |-> out, rd |-> {}]
  ELSE IF p.error < 0 THEN
    [r |-> p.error, p |-> p, out |-> out, rd |-> {}]
  ELSE IF p.mode # YAPB_MODE_READ THEN
    [r |-> YAPB_ERR_INVALID_MODE,
     p |-> [p EXCEPT !.error = YAPB_ERR_INVALID_MODE], out |-> out, rd |-> {}]
  ELSE IF p.pos >= p.buffer_size THEN
    [r |-> YAPB_ERR_NO_MORE_ELEMENTS,
     p |-> [p EXCEPT !.error = YAPB_ERR_NO_MORE_ELEMENTS], out |-> out, rd |-> {}]
  ELSE
    LET type == Byte(m, p.buffer, p.pos)
        Prim(x, k) ==
          [r |-> x.r, p |-> x.p, rd |-> {p.pos} \cup x.rd,
           out |-> [type |-> type,
                    val |-> IF x.r >= 0 THEN [k |-> k, v |-> x.out] ELSE out.val]]
        b == YAPB_pop_blob(m, p, FALSE, NullPtr, FALSE, 0)
        n == YAPB_pop_nested(m, p, UninitPkt)
    IN
    CASE type = YAPB_INT8 -> Prim(YAPB_pop_i8(m, p, FALSE, 0), "i8")
      [] type = YAPB_INT16 -> Prim(YAPB_pop_i16(m, p, FALSE, 0), "i16")
      [] type = YAPB_INT32 -> Prim(YAPB_pop_i32(m, p, FALSE, 0), "i32")
      [] type = YAPB_INT64 -> Prim(YAPB_pop_i64(m, p, FALSE, 0), "i64")
      [] type = YAPB_FLOAT -> Prim(YAPB_pop_double(m, p, FALSE, 0), "d")
      [] type = YAPB_DOUBLE -> Prim(YAPB_pop_double(m, p, FALSE, 0), "d")
      [] type = YAPB_BLOB ->
           [r |-> b.r, p |-> b.p, rd |-> {p.pos} \cup b.rd,
            out |-> [type |-> type,
                     val |-> IF b.r >= 0
                             THEN [k |-> "blob", v |-> [data |-> b.data, len |-> b.len]]
                             ELSE IF b.rd # {} THEN [k |-> "blob.len", v |-> b.len]
                             ELSE out.val]]
      [] type = YAPB_NESTED_PKT ->
           [r |-> n.r, p |-> n.p, rd |-> {p.pos} \cup n.rd,
            out |-> [type |-> type,
                     val |-> IF n.r >= 0 THEN [k |-> "nested", v |-> n.out] ELSE out.val]]
      [] OTHER ->
           [r |-> YAPB_ERR_INVALID_PACKET,
            p |-> [p EXCEPT !.error = YAPB_ERR_INVALID_PACKET],
            out |-> [out EXCEPT !.type = type], rd |-> {p.pos}]
\* out is the caller's YAPB_Element_t: [type, val], val naming the union
\* member last written (k) and its value (v).
YAPB_pop_next(m, p, outNull, out) ==
  IF p.st = "null" \/ outNull THEN
    [r |-> YAPB_ERR_NULL_PTR, p |-> p, out |-> out, rd |-> {}]
  ELSE IF p.error < 0 THEN
    [r |-> p.error, p |-> p, out |-> out, rd |-> {}]
  ELSE IF p.mode # YAPB_MODE_READ THEN
    [r |-> YAPB_ERR_INVALID_MODE,
     p |-> [p EXCEPT !.error = YAPB_ERR_INVALID_MODE], out |-> out, rd |-> {}]
  ELSE IF p.pos >= p.buffer_size THEN
    [r |-> YAPB_ERR_NO_MORE_ELEMENTS,
     p |-> [p EXCEPT !.error = YAPB_ERR_NO_MORE_ELEMENTS], out |-> out, rd |-> {}]
  ELSE
    LET type == Byte(m, p.buffer, p.pos)
        Prim(x, k) ==
          [r |-> x.r, p |-> x.p, rd |-> {p.pos} \cup x.rd,
           out |-> [type |-> type,
                    val |-> IF x.r >= 0 THEN [k |-> k, v |-> x.out] ELSE out.val]]
        b == YAPB_pop_blob(m, p, FALSE, NullPtr, FALSE, 0)
        n == YAPB_pop_nested(m, p, UninitPkt)
    IN
    CASE type = YAPB_INT8 -> Prim(YAPB_pop_i8(m, p, FALSE, 0), "i8")
      [] type = YAPB_INT16 -> Prim(YAPB_pop_i16(m, p, FALSE, 0), "i16")
      [] type = YAPB_INT32 -> Prim(YAPB_pop_i32(m, p, FALSE, 0), "i32")
      [] type = YAPB_INT64 -> Prim(YAPB_pop_i64(m, p, FALSE, 0), "i64")
      [] type = YAPB_FLOAT -> Prim(YAPB_pop_float(m, p, FALSE, 0), "f")
      [] type = YAPB_DOUBLE -> Prim(YAPB_pop_double(m, p, FALSE, 0), "d")
      [] type = YAPB_BLOB ->
           [r |-> b.r, p |-> b.p, rd |-> {p.pos} \cup b.rd,
            out |-> [type |-> type,
                     val |-> IF b.r >= 0
                             THEN [k |-> "blob", v |-> [data |-> b.data, len |-> b.len]]
                             ELSE IF b.rd # {} THEN [k |-> "blob.len", v |-> b.len]
                             ELSE out.val]]
      [] type = YAPB_NESTED_PKT ->
           [r |-> n.r, p |-> n.p, rd |-> {p.pos} \cup n.rd,
            out |-> [type |-> type,
                     val |-> IF n.r >= 0 THEN [k |-> "nested", v |-> n.out] ELSE out.val]]
      [] OTHER ->
           [r |-> YAPB_ERR_INVALID_PACKET,
            p |-> [p EXCEPT !.error = YAPB_ERR_INVALID_PACKET],
            out |-> [out EXCEPT !.type = type], rd |-> {p.pos}]

\* ------------------------------------------------------------ inputs
\* Values the callers push (int64, float and double as bit patterns).
I8Vals == {-128, 5}
I16Vals == {-2, 258}
I32Vals == {-2, 16909060}
I64Vals == {[h |-> [hi |-> 65535, lo |-> 65534], l |-> [hi |-> 258, lo |-> 772]],
            [h |-> [hi |-> 1, lo |-> 2], l |-> [hi |-> 32768, lo |-> 7]]}
FloatVals == {[hi |-> 16256, lo |-> 0], [hi |-> 49225, lo |-> 4059]}
DoubleVals == {[h |-> [hi |-> 16368, lo |-> 0], l |-> [hi |-> 0, lo |-> 0]],
               [h |-> [hi |-> 49161, lo |-> 8699], l |-> [hi |-> 21572, lo |-> 11544]]}
\* The caller's arrays handed to push_blob, with the length passed.
BlobArgs == {[data |-> <<>>, len |-> 0], [data |-> <<9>>, len |-> 1],
             [data |-> <<1, 2, 3>>, len |-> 3]}

\* What a caller's output variable holds before a pop.
SeedU32 == [hi |-> 4660, lo |-> 22136]
Seed ==
  [int |-> 42, u32 |-> SeedU32, u64 |-> [h |-> SeedU32, l |-> SeedU32],
   ptr |-> [b |-> "seed", o |-> 0], len |-> 65535, size |-> 77777,
   elem |-> [type |-> 99, val |-> [k |-> "seed", v |-> 0]]]

\* Bytes a received buffer is made of: the tags INT8, INT16, FLOAT, the
\* reserved 6, BLOB and NESTED, which also serve as length bytes.
RawBytes == {0, 4, 6, 14, 15}
\* What n bytes of memory hold before anything is written to them.
Fill(n) == [i \in 1..n |-> 165]

\* ------------------------------------------------------------ state
\* P is the caller's packet, C the packet a pop_nested on P fills.
Handles == {"P", "C"}
PBase == [b |-> "P", o |-> 0]

VARIABLES
  mem,    \* buffer id -> bytes
  pk,     \* handle -> packet
  wrote,  \* history: the elements pushed into P's buffer since initialize
  flen,   \* history: the length the successful finalize of P reported, or 0
  log,    \* history: handle -> elements popped successfully since its load
  ret,    \* history: handle -> the first negative code a push or pop on it
          \* returned since its initialize or load, or 0
  scan    \* the YAPB_get_elem_count call on P that is followed iteration by
          \* iteration: where it stands, its locals, and what it returned
vars == <<mem, pk, wrote, flen, log, ret, scan>>

\* No such call is open.
NoScan ==
  [at |-> "idle", scan_pos |-> 0, count |-> 0, r |-> YAPB_OK, out_count |-> 0]

\* The packets a caller has at hand to push as nested: built with the API
\* over their own buffers.  k0 is empty and finalized, k1 holds one int8
\* and is finalized, ku is not finalized, kr is k1's bytes loaded.
KidCap == 6
BlankMem ==
  [b \in {"P", "k0", "k1", "ku"} |-> Fill(IF b = "P" THEN BufCap ELSE KidCap)]
Kid0 ==
  LET a == YAPB_initialize(BlankMem, UninitPkt, [b |-> "k0", o |-> 0], KidCap)
  IN YAPB_finalize(a.m, a.p, TRUE, 0)
Kid1 ==
  LET a == YAPB_initialize(Kid0.m, UninitPkt, [b |-> "k1", o |-> 0], KidCap)
      b == YAPB_push_i8(a.m, a.p, FALSE, 7)
  IN YAPB_finalize(b.m, b.p, TRUE, 0)
KidU ==
  LET a == YAPB_initialize(Kid1.m, UninitPkt, [b |-> "ku", o |-> 0], KidCap)
  IN YAPB_push_i8(a.m, a.p, FALSE, 7)
KidR == YAPB_load(KidU.m, UninitPkt, [b |-> "k1", o |-> 0], KidCap)
FreshMem == KidU.m
NestedArgs == {Kid0.p, Kid1.p, KidU.p, KidR.p, NullPkt}

Pk(h) == IF h = "NULL" THEN NullPkt ELSE pk[h]
Live(h) == h \in Handles /\ pk[h].st = "live"
\* The handles a call may be made on: the packets set up so far.
Callable == {h \in Handles : pk[h].st = "live"}

\* A caller about to build a packet in P's buffer.
InitFresh ==
  /\ mem = FreshMem
  /\ pk = [h \in Handles |-> UninitPkt]
  /\ wrote = <<>>
  /\ flen = 0
  /\ log = [h \in Handles |-> <<>>]
  /\ ret = [h \in Handles |-> 0]
  /\ scan = NoScan

\* A caller who received bytes (any payload, the header declaring all of it
\* or all but its last byte) and loaded them into P.
InitRaw ==
  \E payload \in [1..RawPayload -> RawBytes], cut \in {0, 1} :
    LET bytes == write_u32(U32OfSize(YAPB_HEADER_SIZE + RawPayload - cut)) \o payload
        m == [FreshMem EXCEPT !["P"] = bytes]
        x == YAPB_load(m, UninitPkt, PBase, Len(bytes))
    IN
    /\ mem = m
    /\ pk = [h \in Handles |-> IF h = "P" THEN x.p ELSE UninitPkt]
    /\ wrote = <<>>
    /\ flen = 0
    /\ log = [h \in Handles |-> <<>>]
    /\ ret = [h \in Handles |-> 0]
    /\ scan = NoScan

Init == InitFresh \/ InitRaw

\* ------------------------------------------------------------ calls
SetPk(h, p) == IF h = "NULL" THEN pk ELSE [pk EXCEPT ![h] = p]
\* ret once a push or pop on h returned r.
Returned(h, r) ==
  IF h \in Handles /\ ret[h] = 0 /\ r < 0 THEN [ret EXCEPT ![h] = r] ELSE ret

\* A value pointer: one per value, and NULL.
Args(S) == {[nul |-> FALSE, v |-> x] : x \in S} \cup {[nul |-> TRUE, v |-> CHOOSE x \in S : TRUE]}

\* initialize is called once on P's storage, over P's buffer.
Initialize ==
  \E h \in {"P", "NULL"}, buffer \in {PBase, NullPtr}, size \in {YAPB_HEADER_SIZE - 1, BufCap} :
    /\ h = "P" => pk["P"].st = "uninit"
    /\ LET x == YAPB_initialize(mem, Pk(h), buffer, size) IN
       /\ mem' = x.m
       /\ pk' = SetPk(h, x.p)
       /\ UNCHANGED <<wrote, flen, log, ret, scan>>

Finalize ==
  \E h \in Callable, lenNull \in BOOLEAN :
    LET x == YAPB_finalize(mem, Pk(h), lenNull, Seed.size) IN
    /\ mem' = x.m
    /\ pk' = SetPk(h, x.p)
    /\ flen' = IF x.r = YAPB_OK /\ h = "P"
               THEN YAPB_finalize(mem, Pk(h), FALSE, Seed.size).out_len ELSE flen
    /\ UNCHANGED <<wrote, log, ret, scan>>

\* The sizes a caller passes to load: too short for a header, the whole
\* buffer, the finalized length and one byte less.
LoadSizes ==
  {YAPB_HEADER_SIZE - 1, Len(mem["P"])} \cup (IF flen > 0 THEN {flen, flen - 1} ELSE {})

\* load is called on P, over P's buffer.
Load ==
  \E h \in {"P", "NULL"}, data \in {PBase, NullPtr}, size \in LoadSizes :
    LET x == YAPB_load(mem, Pk(h), data, size) IN
    /\ pk' = SetPk(h, x.p)
    /\ log' = IF x.r = YAPB_OK /\ h = "P" THEN [log EXCEPT !["P"] = <<>>] ELSE log
    /\ ret' = IF x.r = YAPB_OK /\ h = "P" THEN [ret EXCEPT !["P"] = 0] ELSE ret
    /\ UNCHANGED <<mem, wrote, flen, scan>>

\* x is the push's result, t the wire tag and v the value as it must come
\* back from a pop.
DoPush(h, t, v, x) ==
  /\ mem' = x.m
  /\ pk' = SetPk(h, x.p)
  /\ wrote' = IF x.r = YAPB_OK /\ h = "P" THEN Append(wrote, [t |-> t, v |-> v]) ELSE wrote
  /\ ret' = Returned(h, x.r)
  /\ UNCHANGED <<flen, log, scan>>

PushI8 ==
  \E h \in Callable, a \in Args(I8Vals) :
    DoPush(h, YAPB_INT8, a.v, YAPB_push_i8(mem, Pk(h), a.nul, a.v))
PushI16 ==
  \E h \in Callable, a \in Args(I16Vals) :
    DoPush(h, YAPB_INT16, a.v, YAPB_push_i16(mem, Pk(h), a.nul, a.v))
PushI32 ==
  \E h \in Callable, a \in Args(I32Vals) :
    DoPush(h, YAPB_INT32, a.v, YAPB_push_i32(mem, Pk(h), a.nul, a.v))
PushI64 ==
  \E h \in Callable, a \in Args(I64Vals) :
    DoPush(h, YAPB_INT64, a.v, YAPB_push_i64(mem, Pk(h), a.nul, a.v))
PushFloat ==
  \E h \in Callable, a \in Args(FloatVals) :
    DoPush(h, YAPB_FLOAT, a.v, YAPB_push_float(mem, Pk(h), a.nul, a.v))
PushDouble ==
  \E h \in Callable, a \in Args(DoubleVals) :
    DoPush(h, YAPB_DOUBLE, a.v, YAPB_push_double(mem, Pk(h), a.nul, a.v))
PushBlob ==
  \E h \in Callable, a \in BlobArgs, dataNull \in BOOLEAN :
    DoPush(h, YAPB_BLOB, SubSeq(a.data, 1, a.len),
           YAPB_push_blob(mem, Pk(h), dataNull, a.data, a.len))
PushNested ==
  \E h \in Callable, n \in NestedArgs :
    DoPush(h, YAPB_NESTED_PKT,
           Bytes(mem, n.buffer, 0, YAPB_get_buffer(n, FALSE, 0).len),
           YAPB_push_nested(mem, Pk(h), n))

\* DoPop with the sticky error kept in one place for all packets over the
\* same memory, as errno is, and not in each packet.
DoPop_error_shared(h, t, v, x) ==
  /\ pk' = [c \in Handles |->
             IF c = h THEN x.p
             ELSE IF pk[c].st = "live" /\ pk[c].buffer.b = x.p.buffer.b
             THEN [pk[c] EXCEPT !.error = x.p.error]
             ELSE pk[c]]
  /\ log' = IF x.r >= 0 /\ h \in Handles
            THEN [log EXCEPT ![h] = Append(@, [t |-> t, v |-> v])] ELSE log
  /\ ret' = Returned(h, x.r)
  /\ UNCHANGED <<mem, wrote, flen, scan>>
\* x is the pop's result, t the wire tag of the element, v the value the
\* caller holds after the call.
DoPop(h, t, v, x) ==
  /\ pk' = SetPk(h, x.p)
  /\ log' = IF x.r >= 0 /\ h \in Handles
            THEN [log EXCEPT ![h] = Append(@, [t |-> t, v |-> v])] ELSE log
  /\ ret' = Returned(h, x.r)
  /\ UNCHANGED <<mem, wrote, flen, scan>>

PopI8 ==
  \E h \in Callable, outNull \in BOOLEAN :
    LET x == YAPB_pop_i8(mem, Pk(h), outNull, Seed.int) IN
    DoPop(h, YAPB_INT8, x.out, x)
PopI16 ==
  \E h \in Callable, outNull \in BOOLEAN :
    LET x == YAPB_pop_i16(mem, Pk(h), outNull, Seed.int) IN
    DoPop(h, YAPB_INT16, x.out, x)
PopI32 ==
  \E h \in Callable, outNull \in BOOLEAN :
    LET x == YAPB_pop_i32(mem, Pk(h), outNull, Seed.int) IN
    DoPop(h, YAPB_INT32, x.out, x)
PopI64 ==
  \E h \in Callable, outNull \in BOOLEAN :
    LET x == YAPB_pop_i64(mem, Pk(h), outNull, Seed.u64) IN
    DoPop(h, YAPB_INT64, x.out, x)
PopFloat ==
  \E h \in Callable, outNull \in BOOLEAN :
    LET x == YAPB_pop_float(mem, Pk(h), outNull, Seed.u32) IN
    DoPop(h, YAPB_FLOAT, x.out, x)
PopDouble ==
  \E h \in Callable, outNull \in BOOLEAN :
    LET x == YAPB_pop_double(mem, Pk(h), outNull, Seed.u64) IN
    DoPop(h, YAPB_DOUBLE, x.out, x)

\* pop_blob and pop_nested are called on set-up packets only.
PopBlob ==
  \E h \in Callable, dataNull \in BOOLEAN, lenNull \in BOOLEAN :
    LET x == YAPB_pop_blob(mem, pk[h], dataNull, Seed.ptr, lenNull, Seed.len) IN
    DoPop(h, YAPB_BLOB, Bytes(mem, x.data, 0, x.len), x)

\* The storage a pop_nested on h may name as out: C for a child of P, and
\* for a child of C storage that is not followed further; or NULL.
Outs(h) == {IF h = "P" THEN pk["C"] ELSE UninitPkt, NullPkt}

PopNested ==
  \E h \in Callable : \E out \in Outs(h) :
    LET x == YAPB_pop_nested(mem, pk[h], out)
        kept == h = "P" /\ out.st # "null"
    IN
    /\ pk' = IF kept THEN [pk EXCEPT ![h] = x.p, !["C"] = x.out] ELSE [pk EXCEPT ![h] = x.p]
    /\ log' = IF x.r >= 0
              THEN [c \in Handles |->
                      IF c = h
                      THEN Append(log[h], [t |-> YAPB_NESTED_PKT,
                                           v |-> Bytes(mem, x.out.buffer, 0, x.out.buffer_size)])
                      ELSE IF kept THEN <<>> ELSE log[c]]
              ELSE log
    /\ ret' = IF x.r >= 0 /\ kept THEN [ret EXCEPT !["C"] = 0] ELSE Returned(h, x.r)
    /\ UNCHANGED <<mem, wrote, flen, scan>>

\* The value of a popped element as the log keeps it.
ElemValue(m, e) ==
  IF e.val.k = "blob" THEN Bytes(m, e.val.v.data, 0, e.val.v.len)
  ELSE IF e.val.k = "nested" THEN Bytes(m, e.val.v.buffer, 0, e.val.v.buffer_size)
  ELSE e.val.v

PopNext ==
  \E h \in Callable, outNull \in BOOLEAN :
    LET x == YAPB_pop_next(mem, Pk(h), outNull, Seed.elem) IN
    DoPop(h, x.out.type, ElemValue(mem, x.out), x)

\* The queries take the packet as const: no variable changes.
GetElemCount ==
  \E h \in Callable, outNull \in BOOLEAN :
    /\ YAPB_get_elem_count(mem, Pk(h), outNull, Seed.len).r \in -7..1
    /\ UNCHANGED vars

GetError ==
  \E h \in Callable :
    /\ YAPB_get_error(Pk(h)) \in -7..1
    /\ UNCHANGED vars

GetBuffer ==
  \E h \in Callable, lenNull \in BOOLEAN :
    /\ YAPB_get_buffer(Pk(h), lenNull, Seed.size).len >= 0
    /\ UNCHANGED vars

CheckComplete ==
  \E data \in {PBase, NullPtr}, len \in LoadSizes :
    /\ YAPB_check_complete(mem, data, len) \in BOOLEAN
    /\ UNCHANGED vars

Next ==
  \/ Initialize
  \/ Finalize
  \/ Load
  \/ PushI8
  \/ PushI16
  \/ PushI32
  \/ PushI64
  \/ PushFloat
  \/ PushDouble
  \/ PushBlob
  \/ PushNested
  \/ PopI8
  \/ PopI16
  \/ PopI32
  \/ PopI64
  \/ PopFloat
  \/ PopDouble
  \/ PopBlob
  \/ PopNested
  \/ PopNext
  \/ GetElemCount
  \/ GetError
  \/ GetBuffer
  \/ CheckComplete

Spec == Init /\ [][Next]_vars

\* ------------------------------------------------------------ the calls open in a state
\* What one call on packet p leaves behind, in one shape for every
\* function: the code returned, the packet and the memory after it, whether
\* the caller's outputs still hold what they held before (same), and the
\* offsets of p's buffer it read and wrote.  nul: a value or output pointer
\* was NULL.  t: the wire tag of the call's element type, -1 if it has none.
PushLeft(t, nul, x) ==
  [op |-> "push", t |-> t, nul |-> nul, r |-> x.r, p |-> x.p, m |-> x.m,
   same |-> TRUE, rd |-> {}, wr |-> x.wr]
PopLeft(op, t, nul, x, m, same) ==
  [op |-> op, t |-> t, nul |-> nul, r |-> x.r, p |-> x.p, m |-> m,
   same |-> same, rd |-> x.rd, wr |-> {}]

\* Every push the actions above can make on p.
PushCalls(m, p) ==
  {PushLeft(YAPB_INT8, a.nul, YAPB_push_i8(m, p, a.nul, a.v)) : a \in Args(I8Vals)}
  \cup {PushLeft(YAPB_INT16, a.nul, YAPB_push_i16(m, p, a.nul, a.v)) : a \in Args(I16Vals)}
  \cup {PushLeft(YAPB_INT32, a.nul, YAPB_push_i32(m, p, a.nul, a.v)) : a \in Args(I32Vals)}
  \cup {PushLeft(YAPB_INT64, a.nul, YAPB_push_i64(m, p, a.nul, a.v)) : a \in Args(I64Vals)}
  \cup {PushLeft(YAPB_FLOAT, a.nul, YAPB_push_float(m, p, a.nul, a.v)) : a \in Args(FloatVals)}
  \cup {PushLeft(YAPB_DOUBLE, a.nul, YAPB_push_double(m, p, a.nul, a.v)) : a \in Args(DoubleVals)}
  \cup {PushLeft(YAPB_BLOB, n, YAPB_push_blob(m, p, n, a.data, a.len)) :
          a \in BlobArgs, n \in BOOLEAN}
  \cup {PushLeft(YAPB_NESTED_PKT, n.st = "null", YAPB_push_nested(m, p, n)) : n \in NestedArgs}

\* Every typed pop the actions above can make on p; outs is the storage
\* pop_nested may be given.
PopCalls(m, p, outs) ==
  {LET x == YAPB_pop_i8(m, p, n, Seed.int)
   IN PopLeft("pop", YAPB_INT8, n, x, m, x.out = Seed.int) : n \in BOOLEAN}
  \cup {LET x == YAPB_pop_i16(m, p, n, Seed.int)
        IN PopLeft("pop", YAPB_INT16, n, x, m, x.out = Seed.int) : n \in BOOLEAN}
  \cup {LET x == YAPB_pop_i32(m, p, n, Seed.int)
        IN PopLeft("pop", YAPB_INT32, n, x, m, x.out = Seed.int) : n \in BOOLEAN}
  \cup {LET x == YAPB_pop_i64(m, p, n, Seed.u64)
        IN PopLeft("pop", YAPB_INT64, n, x, m, x.out = Seed.u64) : n \in BOOLEAN}
  \cup {LET x == YAPB_pop_float(m, p, n, Seed.u32)
        IN PopLeft("pop", YAPB_FLOAT, n, x, m, x.out = Seed.u32) : n \in BOOLEAN}
  \cup {LET x == YAPB_pop_double(m, p, n, Seed.u64)
        IN PopLeft("pop", YAPB_DOUBLE, n, x, m, x.out = Seed.u64) : n \in BOOLEAN}
  \cup {LET x == YAPB_pop_blob(m, p, dn, Seed.ptr, ln, Seed.len)
        IN PopLeft("pop", YAPB_BLOB, dn \/ ln, x, m, x.data = Seed.ptr /\ x.len = Seed.len) :
          dn \in BOOLEAN, ln \in BOOLEAN}
  \cup {LET x == YAPB_pop_nested(m, p, out)
        IN PopLeft("pop", YAPB_NESTED_PKT, out.st = "null", x, m, x.out = out) : out \in outs}

NextCalls(m, p) ==
  {LET x == YAPB_pop_next(m, p, n, Seed.elem)
   IN PopLeft("pop_next", -1, n, x, m, x.out = Seed.elem) : n \in BOOLEAN}

FinalizeCalls(m, p) ==
  {LET x == YAPB_finalize(m, p, n, Seed.size)
   IN [op |-> "finalize", t |-> -1, nul |-> n, r |-> x.r, p |-> x.p, m |-> x.m,
       same |-> x.out_len = Seed.size, rd |-> {}, wr |-> x.wr] : n \in BOOLEAN}

CountCalls(m, p) ==
  {LET x == YAPB_get_elem_count(m, p, n, Seed.len)
   IN [op |-> "get_elem_count", t |-> -1, nul |-> n, r |-> x.r, p |-> p, m |-> m,
       same |-> x.out_count = Seed.len, rd |-> x.rd, wr |-> {}] : n \in BOOLEAN}

\* The pushes and pops open on handle h in the current state, and all the
\* calls open on it that are not initialize or load.
PushPop(h) ==
  PushCalls(mem, pk[h]) \cup PopCalls(mem, pk[h], Outs(h)) \cup NextCalls(mem, pk[h])
Calls(h) == PushPop(h) \cup FinalizeCalls(mem, pk[h]) \cup CountCalls(mem, pk[h])

\* The caller's loop `while (YAPB_pop_next(&pkt, &elem) >= 0) { ... }` on p:
\* the number of times its body runs, or -1 when the loop has not ended
\* after `left` runs of the body.
RECURSIVE PopNextLoop(_, _, _)
PopNextLoop(m, p, left) ==
  LET x == YAPB_pop_next(m, p, FALSE, Seed.elem) IN
  IF x.r < 0 THEN 0
  ELSE IF left = 0 THEN -1
  ELSE LET n == PopNextLoop(m, x.p, left - 1) IN IF n < 0 THEN -1 ELSE n + 1

\* h is a packet set up by load.
InRead(h) == Live(h) /\ pk[h].mode = YAPB_MODE_READ
\* P is a write packet on which finalize has succeeded.
Finalized == Live("P") /\ pk["P"].mode = YAPB_MODE_WRITE /\ pk["P"].finalized

\* ------------------------------------------------------------ round trip
\* One value of one primitive type through the whole API: initialize,
\* push, finalize, load, pop.  The types are those of the typed functions
\* and of the unsigned wrappers of yapb.h.
RTTypes == {"i8", "u8", "i16", "u16", "i32", "u32", "i64", "u64", "float", "double"}

\* The values pushed: every int8 and uint8, and for the wider types the
\* extremes, the sign boundary and patterns with all bytes different.
U32Pats ==
  {[hi |-> 0, lo |-> 0], [hi |-> 65535, lo |-> 65535], [hi |-> 32768, lo |-> 0],
   [hi |-> 32767, lo |-> 65535], [hi |-> 258, lo |-> 772], [hi |-> 32704, lo |-> 1]}
U64Pats ==
  {[h |-> a, l |-> b] : a \in {[hi |-> 0, lo |-> 0], [hi |-> 32768, lo |-> 0], [hi |-> 258, lo |-> 772]},
                        b \in {[hi |-> 0, lo |-> 0], [hi |-> 65535, lo |-> 65535], [hi |-> 1286, lo |-> 1800]}}
RTVals(T) ==
  CASE T = "i8" -> -128..127
    [] T = "u8" -> 0..255
    [] T = "i16" -> {-32768, -257, -1, 0, 1, 258, 32767}
    [] T = "u16" -> {0, 1, 258, 32767, 32768, 65535}
    [] T = "i32" -> {-2147483647 - 1, -16909060, -1, 0, 1, 16909060, 2147483647}
    [] T = "u32" -> U32Pats
    [] T = "float" -> U32Pats
    [] OTHER -> U64Pats

PushT(T, m, p, v) ==
  CASE T = "i8" -> YAPB_push_i8(m, p, FALSE, v)
    [] T = "u8" -> YAPB_push_u8(m, p, FALSE, v)
    [] T = "i16" -> YAPB_push_i16(m, p, FALSE, v)
    [] T = "u16" -> YAPB_push_u16(m, p, FALSE, v)
    [] T = "i32" -> YAPB_push_i32(m, p, FALSE, v)
    [] T = "u32" -> YAPB_push_u32(m, p, FALSE, v)
    [] T = "i64" -> YAPB_push_i64(m, p, FALSE, v)
    [] T = "u64" -> YAPB_push_u64(m, p, FALSE, v)
    [] T = "float" -> YAPB_push_float(m, p, FALSE, v)
    [] T = "double" -> YAPB_push_double(m, p, FALSE, v)

\* The pop of type T into a pre-seeded variable of that type.
PopT(T, m, p) ==
  CASE T = "i8" -> YAPB_pop_i8(m, p, FALSE, Seed.int)
    [] T = "u8" -> YAPB_pop_u8(m, p, FALSE, Seed.int)
    [] T = "i16" -> YAPB_pop_i16(m, p, FALSE, Seed.int)
    [] T = "u16" -> YAPB_pop_u16(m, p, FALSE, Seed.int)
    [] T = "i32" -> YAPB_pop_i32(m, p, FALSE, Seed.int)
    [] T = "u32" -> YAPB_pop_u32(m, p, FALSE, Seed.u32)
    [] T = "i64" -> YAPB_pop_i64(m, p, FALSE, Seed.u64)
    [] T = "u64" -> YAPB_pop_u64(m, p, FALSE, Seed.u64)
    [] T = "float" -> YAPB_pop_float(m, p, FALSE, Seed.u32)
    [] T = "double" -> YAPB_pop_double(m, p, FALSE, Seed.u64)

\* Where the caller stands in the sequence, read off the state.
RTFresh == pk["P"].st = "uninit"
RTEmpty ==
  /\ Live("P") /\ pk["P"].mode = YAPB_MODE_WRITE /\ ~pk["P"].finalized
  /\ wrote = <<>> /\ ret["P"] = 0
RTPushed ==
  /\ Live("P") /\ pk["P"].mode = YAPB_MODE_WRITE /\ ~pk["P"].finalized
  /\ Len(wrote) = 1
RTFinal == Live("P") /\ pk["P"].mode = YAPB_MODE_WRITE /\ pk["P"].finalized
RTLoaded ==
  /\ Live("P") /\ pk["P"].mode = YAPB_MODE_READ
  /\ log["P"] = <<>> /\ ret["P"] = 0
RTPopped == Len(log["P"]) = 1

\* In this sequence wrote and log name the element by its type in RTTypes.
RTInitialize ==
  /\ RTFresh
  /\ LET x == YAPB_initialize(mem, pk["P"], PBase, BufCap) IN
     /\ mem' = x.m
     /\ pk' = [pk EXCEPT !["P"] = x.p]
     /\ UNCHANGED <<wrote, flen, log, ret, scan>>
RTPush ==
  /\ RTEmpty
  /\ \E T \in RTTypes : \E v \in RTVals(T) :
       LET x == PushT(T, mem, pk["P"], v) IN
       /\ mem' = x.m
       /\ pk' = [pk EXCEPT !["P"] = x.p]
       /\ wrote' = IF x.r = YAPB_OK THEN <<[t |-> T, v |-> v]>> ELSE wrote
       /\ ret' = Returned("P", x.r)
       /\ UNCHANGED <<flen, log, scan>>
RTFinalize ==
  /\ RTPushed
  /\ LET x == YAPB_finalize(mem, pk["P"], FALSE, Seed.size) IN
     /\ mem' = x.m
     /\ pk' = [pk EXCEPT !["P"] = x.p]
     /\ flen' = IF x.r = YAPB_OK THEN x.out_len ELSE flen
     /\ UNCHANGED <<wrote, log, ret, scan>>
RTLoad ==
  /\ RTFinal
  /\ LET x == YAPB_load(mem, pk["P"], PBase, flen) IN
     /\ pk' = [pk EXCEPT !["P"] = x.p]
     /\ UNCHANGED <<mem, wrote, flen, log, ret, scan>>
RTPop ==
  /\ RTLoaded
  /\ LET T == wrote[1].t
         x == PopT(T, mem, pk["P"])
     IN
     /\ pk' = [pk EXCEPT !["P"] = x.p]
     /\ log' = IF x.r >= 0 THEN [log EXCEPT !["P"] = <<[t |-> T, v |-> x.out]>>] ELSE log
     /\ ret' = Returned("P", x.r)
     /\ UNCHANGED <<mem, wrote, flen, scan>>

NextRT ==
  \/ RTInitialize
  \/ RTPush
  \/ RTFinalize
  \/ RTLoad
  \/ RTPop

SpecRT == InitFresh /\ [][NextRT]_vars

\* ------------------------------------------------------------ nested round trip
\* The caller builds packet B in its second packet object (handle C) over
\* buffer "B", pushes B into packet A (handle P), and reads A back, taking
\* the child into the second object again.  wrote holds the successful
\* pushes in call order: x, y (into B), the nested element, z (into A), each
\* named by its type in RTTypes.
NestCap == 24
NestKidCap == 14
NestInts ==
  {[T |-> "i8", v |-> v] : v \in I8Vals} \cup {[T |-> "u16", v |-> v] : v \in {258, 65535}}
  \cup {[T |-> "i32", v |-> v] : v \in I32Vals}

InitNest ==
  /\ mem = [b \in {"P", "B"} |-> Fill(IF b = "P" THEN NestCap ELSE NestKidCap)]
  /\ pk = [h \in Handles |-> UninitPkt]
  /\ wrote = <<>>
  /\ flen = 0
  /\ log = [h \in Handles |-> <<>>]
  /\ ret = [h \in Handles |-> 0]
  /\ scan = NoScan

\* Where the caller stands: building B, building A, reading.
NestBuildingB(k) ==
  /\ pk["P"].st = "uninit" /\ Live("C")
  /\ pk["C"].mode = YAPB_MODE_WRITE /\ ~pk["C"].finalized /\ Len(wrote) = k
NestBuildingA(k) ==
  /\ Live("P") /\ pk["P"].mode = YAPB_MODE_WRITE /\ ~pk["P"].finalized /\ Len(wrote) = k
NestReading(h, k) == InRead("P") /\ InRead(h) /\ Len(log[h]) = k

NestInitialize ==
  \E h \in Handles :
    /\ pk[h].st = "uninit"
    /\ h = "P" => (Live("C") /\ pk["C"].finalized)
    /\ h = "C" => pk["P"].st = "uninit"
    /\ LET x == YAPB_initialize(mem, pk[h], [b |-> IF h = "P" THEN "P" ELSE "B", o |-> 0],
                                Len(mem[IF h = "P" THEN "P" ELSE "B"]))
       IN
       /\ mem' = x.m
       /\ pk' = [pk EXCEPT ![h] = x.p]
       /\ UNCHANGED <<wrote, flen, log, ret, scan>>

\* x, y into B and z into A.
NestPushInt ==
  \E h \in Handles, a \in NestInts :
    /\ h = "C" => (NestBuildingB(0) \/ NestBuildingB(1))
    /\ h = "P" => NestBuildingA(3)
    /\ LET x == PushT(a.T, mem, pk[h], a.v) IN
       /\ mem' = x.m
       /\ pk' = [pk EXCEPT ![h] = x.p]
       /\ wrote' = IF x.r = YAPB_OK THEN Append(wrote, [t |-> a.T, v |-> a.v]) ELSE wrote
       /\ ret' = Returned(h, x.r)
       /\ UNCHANGED <<flen, log, scan>>

NestFinalize ==
  \E h \in Handles :
    /\ h = "C" => NestBuildingB(2)
    /\ h = "P" => NestBuildingA(4)
    /\ LET x == YAPB_finalize(mem, pk[h], FALSE, Seed.size) IN
       /\ mem' = x.m
       /\ pk' = [pk EXCEPT ![h] = x.p]
       /\ flen' = IF x.r = YAPB_OK /\ h = "P" THEN x.out_len ELSE flen
       /\ UNCHANGED <<wrote, log, ret, scan>>

NestPushNested ==
  /\ NestBuildingA(2)
  /\ LET x == YAPB_push_nested(mem, pk["P"], pk["C"]) IN
     /\ mem' = x.m
     /\ pk' = [pk EXCEPT !["P"] = x.p]
     /\ wrote' = IF x.r = YAPB_OK
                 THEN Append(wrote, [t |-> "nested", v |-> Bytes(mem, pk["C"].buffer, 0, pk["C"].pos)])
                 ELSE wrote
     /\ ret' = Returned("P", x.r)
     /\ UNCHANGED <<flen, log, scan>>

NestLoad ==
  /\ Finalized
  /\ LET x == YAPB_load(mem, pk["P"], PBase, flen) IN
     /\ pk' = [pk EXCEPT !["P"] = x.p]
     /\ UNCHANGED <<mem, wrote, flen, log, ret, scan>>

NestPopNested ==
  /\ NestReading("P", 0)
  /\ LET x == YAPB_pop_nested(mem, pk["P"], pk["C"]) IN
     /\ pk' = [pk EXCEPT !["P"] = x.p, !["C"] = x.out]
     /\ log' = IF x.r >= 0
               THEN [log EXCEPT !["P"] = <<[t |-> "nested",
                                            v |-> Bytes(mem, x.out.buffer, 0, x.out.buffer_size)]>>]
               ELSE log
     /\ ret' = Returned("P", x.r)
     /\ UNCHANGED <<mem, wrote, flen, scan>>

\* z from A once the child is out, and x, y from the child, in any order.
NestPopInt ==
  \E h \in Handles :
    /\ h = "P" => NestReading("P", 1)
    /\ h = "C" => (NestReading("C", 0) \/ NestReading("C", 1))
    /\ LET T == wrote[IF h = "P" THEN 4 ELSE Len(log["C"]) + 1].t
           x == PopT(T, mem, pk[h])
       IN
       /\ pk' = [pk EXCEPT ![h] = x.p]
       /\ log' = IF x.r >= 0 THEN [log EXCEPT ![h] = Append(@, [t |-> T, v |-> x.out])] ELSE log
       /\ ret' = Returned(h, x.r)
       /\ UNCHANGED <<mem, wrote, flen, scan>>

NextNest ==
  \/ NestInitialize
  \/ NestPushInt
  \/ NestFinalize
  \/ NestPushNested
  \/ NestLoad
  \/ NestPopNested
  \/ NestPopInt

SpecNest == InitNest /\ [][NextNest]_vars
\* ------------------------------------------------------------ a long packet counted
\* A caller who received a packet of very many small elements and asks for
\* their number.  The call is followed through its loop, one iteration a
\* step.  CountElems is the number of elements: the first one a uint16_t
\* does not hold.
CountElems == 65536
\* The bytes of a packet of n int8 elements of value 0.
LongBytes(n) ==
  write_u32(U32OfSize(YAPB_HEADER_SIZE + 2 * n)) \o [i \in 1..(2 * n) |-> 0]
\* The received buffer, L.  No step writes it (YAPB_load takes it as const
\* data and only pushes and finalize store bytes), so it is kept here and
\* not in mem.
LongMem == [b \in {"L"} |-> LongBytes(CountElems)]

InitCount ==
  LET x == YAPB_load(LongMem, UninitPkt, [b |-> "L", o |-> 0], Len(LongMem["L"])) IN
  /\ mem = FreshMem
  /\ pk = [h \in Handles |-> IF h = "P" THEN x.p ELSE UninitPkt]
  /\ wrote = <<>>
  /\ flen = 0
  /\ log = [h \in Handles |-> <<>>]
  /\ ret = [h \in Handles |-> 0]
  /\ scan = NoScan

\* YAPB_get_elem_count(&P, &n) up to its loop.
CountEnter ==
  /\ scan.at = "idle"
  /\ scan' = IF pk["P"].mode # YAPB_MODE_READ
             THEN [scan EXCEPT !.at = "returned", !.r = YAPB_ERR_INVALID_MODE,
                               !.out_count = Seed.len]
             ELSE [scan EXCEPT !.at = "loop", !.scan_pos = YAPB_HEADER_SIZE,
                               !.count = 0, !.out_count = Seed.len]
  /\ UNCHANGED <<mem, pk, wrote, flen, log, ret>>

\* One iteration of the loop.
CountIterate ==
  /\ scan.at = "loop"
  /\ scan.scan_pos < pk["P"].buffer_size
  /\ LET p == pk["P"]
         type == Byte(LongMem, p.buffer, scan.scan_pos)
         s == ScanSkip(LongMem, p, scan.scan_pos + 1, type)
     IN
     scan' = IF ~s.ok \/ scan.scan_pos + 1 + s.skip > p.buffer_size
             THEN [scan EXCEPT !.at = "returned", !.r = YAPB_ERR_INVALID_PACKET]
             ELSE [scan EXCEPT !.scan_pos = @ + 1 + s.skip,
                               !.count = (@ + 1) % 65536]
  /\ UNCHANGED <<mem, pk, wrote, flen, log, ret>>

\* The loop is left: the count is stored and YAPB_OK returned.
CountReturn ==
  /\ scan.at = "loop"
  /\ ~(scan.scan_pos < pk["P"].buffer_size)
  /\ scan' = [scan EXCEPT !.at = "returned", !.r = YAPB_OK, !.out_count = scan.count]
  /\ UNCHANGED <<mem, pk, wrote, flen, log, ret>>

NextCount == CountEnter \/ CountIterate \/ CountReturn
SpecCount == InitCount /\ [][NextCount]_vars

\* ------------------------------------------------------------ properties
\* P was loaded from the bytes a finalize stamped.
Reloaded == InRead("P") /\ flen > 0
Within(p) == 0..(p.buffer_size - 1)

\* C1 (checked under SpecRT): for every primitive type T and value v,
\* initialize over a large enough buffer, push_T(v), finalize and load of
\* the written bytes all return OK, and pop_T then returns a non-negative
\* status and yields exactly v.
C1_RoundTrip ==
  /\ ret["P"] = 0
  /\ RTFresh => YAPB_initialize(mem, pk["P"], PBase, BufCap).r = YAPB_OK
  /\ RTEmpty => \A T \in RTTypes : \A v \in RTVals(T) : PushT(T, mem, pk["P"], v).r = YAPB_OK
  /\ RTPushed => YAPB_finalize(mem, pk["P"], FALSE, Seed.size).r = YAPB_OK
  /\ RTFinal => YAPB_load(mem, pk["P"], PBase, flen).r = YAPB_OK
  /\ RTLoaded => LET x == PopT(wrote[1].t, mem, pk["P"])
                 IN x.r >= 0 /\ x.out = wrote[1].v
  /\ RTPopped => log["P"][1] = wrote[1]

\* The int64 pattern 0x0102030400000000 has come back from pop_i64.
C1_Witness ==
  /\ RTPopped
  /\ log["P"][1].t = "i64"
  /\ log["P"][1].v = [h |-> [hi |-> 258, lo |-> 772], l |-> [hi |-> 0, lo |-> 0]]
  /\ wrote = log["P"]

\* C2: after the elements of wrote were pushed successfully into P,
\* finalized and loaded, the pops made so far with the pushed types returned
\* the pushed values in push order, and the pop of the next pushed type
\* returns a non-negative status.
C2_OrderPreserved ==
  Reloaded =>
    /\ Len(log["P"]) <= Len(wrote)
    /\ \A i \in 1..Len(log["P"]) :
         log["P"][i].t = wrote[i].t /\ log["P"][i].v = wrote[i].v
    /\ (pk["P"].error = YAPB_OK /\ Len(log["P"]) < Len(wrote)) =>
         \A c \in PopCalls(mem, pk["P"], Outs("P")) :
           (c.t = wrote[Len(log["P"]) + 1].t /\ ~c.nul) => c.r >= 0

\* Three elements of three types, a blob first, pushed and popped back.
C2_Witness ==
  /\ Reloaded
  /\ Len(wrote) = 3
  /\ Len(log["P"]) = 3
  /\ wrote[1].t = YAPB_BLOB /\ wrote[1].v = <<9>>
  /\ wrote[2].t = YAPB_INT16
  /\ wrote[3].t = YAPB_INT8

\* C3: once a packet's error field is negative, every push, pop (of any
\* type), pop_next, finalize and query on it leaves that field as it is.
C3_StickyErrorKept ==
  \A h \in Handles :
    (Live(h) /\ pk[h].error < 0) => \A c \in Calls(h) : c.p.error = pk[h].error

\* C4: once a push or pop on a packet has returned a negative code, every
\* later push or pop on it returns that code, whatever its arguments.
C4_StickyReturnCode ==
  \A h \in Handles :
    (Live(h) /\ ret[h] < 0) => \A c \in PushPop(h) : c.r = ret[h]

\* C5: a typed pop that returns a negative code leaves its outputs as the
\* caller pre-seeded them (scalar; data pointer and length; child packet).
C5_FailedPopKeepsOutputs ==
  \A h \in Handles :
    Live(h) => \A c \in PopCalls(mem, pk[h], Outs(h)) : c.r < 0 => c.same

\* C6: on a loaded packet whose elements were all popped successfully, one
\* more pop of any type returns NoMoreElements and leaves its output alone.
C6_ExtraPopNoMoreElements ==
  \A h \in Handles :
    (InRead(h) /\ pk[h].error = YAPB_OK /\ pk[h].pos = pk[h].buffer_size) =>
      \A c \in PopCalls(mem, pk[h], Outs(h)) :
        ~c.nul => (c.r = YAPB_ERR_NO_MORE_ELEMENTS /\ c.same)

\* C7: on a read-mode packet with no latched error and the cursor before
\* the end, a typed pop asking for another type than the tag at the cursor
\* returns TypeMismatch, for every type asked and every element position.
C7_MismatchIsTypeMismatch ==
  \A h \in Handles :
    (InRead(h) /\ pk[h].error = YAPB_OK /\ pk[h].pos < pk[h].buffer_size) =>
      \A c \in PopCalls(mem, pk[h], Outs(h)) :
        (~c.nul /\ c.t # Byte(mem, pk[h].buffer, pk[h].pos)) => c.r = YAPB_ERR_TYPE_MISMATCH

\* C8: whatever bytes a packet was loaded over and whatever was called
\* before, every byte a pop, pop_next or get_elem_count reads lies below
\* buffer_size, every byte a push or finalize writes lies below the capacity
\* given to initialize, and the packet's view lies inside its allocation.
C8_AccessInBounds ==
  \A h \in Handles :
    Live(h) =>
      /\ pk[h].buffer.o + pk[h].buffer_size <= Len(mem[pk[h].buffer.b])
      /\ \A c \in Calls(h) : c.rd \subseteq Within(pk[h]) /\ c.wr \subseteq Within(pk[h])

\* A received packet, one element popped, whose next element is a blob or
\* nested packet with a length that overruns the buffer.
C8_Witness ==
  /\ InRead("P") /\ flen = 0
  /\ pk["P"].error = YAPB_OK
  /\ Len(log["P"]) >= 1
  /\ \E c \in PopCalls(mem, pk["P"], Outs("P")) :
       /\ c.t \in {YAPB_BLOB, YAPB_NESTED_PKT}
       /\ c.r = YAPB_ERR_INVALID_PACKET
       /\ c.rd # {}

\* C9: in every reachable state of a set-up packet, after any successful
\* and failing operations, HEADER_SIZE <= pos <= buffer_size.
C9_PositionInRange ==
  \A h \in Handles :
    Live(h) => (YAPB_HEADER_SIZE <= pk[h].pos /\ pk[h].pos <= pk[h].buffer_size)

\* P and a child popped from it, both advanced, both with a latched error.
C9_Witness ==
  /\ Live("P") /\ Live("C")
  /\ pk["P"].error < 0 /\ pk["C"].error < 0
  /\ pk["P"].pos > YAPB_HEADER_SIZE /\ pk["C"].pos > YAPB_HEADER_SIZE

\* C10: the first finalize on a write packet returns OK, stamps pos into
\* the header and reports pos as the length; from then on the header holds
\* that stamp and every finalize returns InvalidMode and changes no byte.
C10_FinalizeOneShot ==
  (Live("P") /\ pk["P"].mode = YAPB_MODE_WRITE) =>
    \A n \in BOOLEAN :
      LET p == pk["P"]
          x == YAPB_finalize(mem, p, n, Seed.size)
      IN
      IF ~p.finalized THEN
        /\ x.r = YAPB_OK
        /\ x.p.finalized
        /\ Bytes(x.m, p.buffer, 0, YAPB_HEADER_SIZE) = write_u32(U32OfSize(p.pos))
        /\ \A k \in YAPB_HEADER_SIZE..(p.buffer_size - 1) :
             Byte(x.m, p.buffer, k) = Byte(mem, p.buffer, k)
        /\ x.out_len = IF n THEN Seed.size ELSE p.pos
      ELSE
        /\ x.r = YAPB_ERR_INVALID_MODE
        /\ x.m = mem /\ x.p = p /\ x.out_len = Seed.size
        /\ flen = p.pos
        /\ Bytes(mem, p.buffer, 0, YAPB_HEADER_SIZE) = write_u32(U32OfSize(flen))

\* A finalized write packet with elements in it, on which pushes were
\* tried after the finalize.
C10_Witness ==
  /\ Live("P") /\ pk["P"].mode = YAPB_MODE_WRITE /\ pk["P"].finalized
  /\ Len(wrote) >= 2
  /\ pk["P"].error = YAPB_ERR_INVALID_MODE

C12_ErrorFreezesBufferAndPosition ==
  \A h \in Handles :
    (Live(h) /\ pk[h].error < 0) =>
      \A c \in PushPop(h) : c.m = mem /\ c.wr = {} /\ c.p.pos = pk[h].pos

\* A loaded packet with a latched TypeMismatch, one element already popped,
\* on which the pop of the type at the cursor is refused with that code.
C12_Witness ==
  /\ InRead("P") /\ pk["P"].error = YAPB_ERR_TYPE_MISMATCH
  /\ Len(log["P"]) >= 1
  /\ pk["P"].pos < pk["P"].buffer_size
  /\ \E c \in PopCalls(mem, pk["P"], Outs("P")) :
       /\ ~c.nul /\ c.t = Byte(mem, pk["P"].buffer, pk["P"].pos)
       /\ c.r = YAPB_ERR_TYPE_MISMATCH

\* C13: every push and pop tests its arguments for NULL first: with an
\* absent value or output pointer (push_blob: absent data and length > 0;
\* push_nested: absent child) on a set-up packet in any state, or with an
\* absent packet handle, the call returns NullPointer and leaves the packet
\* as it is.  (pop_blob and pop_nested read the packet behind the handle
\* before any test, so the absent handle is stated for the other functions.)
C13_NullArgumentsFirst ==
  /\ \A c \in PushCalls(mem, NullPkt) \cup NextCalls(mem, NullPkt) :
       c.r = YAPB_ERR_NULL_PTR /\ c.p = NullPkt /\ c.m = mem
  /\ \A c \in PopCalls(mem, NullPkt, {UninitPkt}) :
       c.t \notin {YAPB_BLOB, YAPB_NESTED_PKT} => (c.r = YAPB_ERR_NULL_PTR /\ c.p = NullPkt)
  /\ \A h \in Handles :
       Live(h) =>
         /\ \A c \in PushPop(h) :
              (c.nul /\ ~(c.op = "push" /\ c.t = YAPB_BLOB)) =>
                (c.r = YAPB_ERR_NULL_PTR /\ c.p = pk[h] /\ c.m = mem)
         /\ \A a \in BlobArgs :
              a.len > 0 =>
                LET x == YAPB_push_blob(mem, pk[h], TRUE, a.data, a.len)
                IN x.r = YAPB_ERR_NULL_PTR /\ x.p = pk[h] /\ x.m = mem

\* C14: load(data, size) with non-null arguments, over any place of P's
\* buffer and any size up to the bytes left there, returns OK exactly when
\* size >= HEADER_SIZE and HEADER_SIZE <= declared <= size, declared being
\* the big-endian value of data's first 4 bytes; BufferTooSmall when
\* size < HEADER_SIZE; InvalidPacket otherwise.  On OK the packet is in read
\* mode over data with buffer_size = declared, pos = HEADER_SIZE, error = OK.
\* A loaded packet keeps buffer_size equal to its header, and no pop reads
\* an offset at or beyond it.
C14_LoadAcceptance ==
  /\ \A o \in 0..(Len(mem["P"]) - 1) : \A size \in 0..(Len(mem["P"]) - o) :
       LET data == [b |-> "P", o |-> o]
           b(k) == mem["P"][o + k + 1]
           x == YAPB_load(mem, pk["P"], data, size)
       IN
       IF size < YAPB_HEADER_SIZE THEN x.r = YAPB_ERR_BUFFER_TOO_SMALL
       ELSE IF /\ b(0) = 0 /\ b(1) = 0
               /\ YAPB_HEADER_SIZE <= b(2) * 256 + b(3)
               /\ b(2) * 256 + b(3) <= size
       THEN /\ x.r = YAPB_OK
            /\ x.p = [st |-> "live", buffer |-> data, buffer_size |-> b(2) * 256 + b(3),
                      pos |-> YAPB_HEADER_SIZE, mode |-> YAPB_MODE_READ,
                      error |-> YAPB_OK, finalized |-> FALSE]
       ELSE x.r = YAPB_ERR_INVALID_PACKET
  /\ \A h \in Handles :
       InRead(h) =>
         /\ Bytes(mem, pk[h].buffer, 0, YAPB_HEADER_SIZE) = <<0, 0, 0, pk[h].buffer_size>>
         /\ \A c \in PopCalls(mem, pk[h], Outs(h)) \cup NextCalls(mem, pk[h]) :
              \A k \in c.rd : k < pk[h].buffer_size

\* A packet loaded with a declared length below the size of the buffer it
\* lies in, read to its end without error.
C14_Witness ==
  /\ InRead("P")
  /\ pk["P"].buffer_size < Len(mem["P"])
  /\ pk["P"].pos = pk["P"].buffer_size
  /\ pk["P"].error = YAPB_OK
  /\ Len(log["P"]) >= 2

\* C15: for the bytes at any place of P's buffer and any count n of them
\* available, check_complete returns true exactly when n >= HEADER_SIZE, the
\* declared length (big-endian value of the first 4 bytes) is >= HEADER_SIZE
\* and n >= declared, true at n = declared; and once it returns true for n
\* it returns true for n + 1.
C15_CheckCompleteExact ==
  \A o \in 0..(Len(mem["P"]) - 1) : \A n \in 0..(Len(mem["P"]) - o) :
    LET data == [b |-> "P", o |-> o]
        b(k) == mem["P"][o + k + 1]
        full == /\ n >= YAPB_HEADER_SIZE
                /\ b(0) = 0 /\ b(1) = 0
                /\ b(2) * 256 + b(3) >= YAPB_HEADER_SIZE
                /\ n >= b(2) * 256 + b(3)
    IN
    /\ YAPB_check_complete(mem, data, n) = full
    /\ (YAPB_check_complete(mem, data, n) /\ n < Len(mem["P"]) - o) =>
         YAPB_check_complete(mem, data, n + 1)

\* A finalized packet of three elements: complete at exactly the stamped
\* length, not complete one byte short of it.
C15_Witness ==
  /\ Finalized
  /\ Len(wrote) = 3
  /\ flen < Len(mem["P"])
  /\ YAPB_check_complete(mem, PBase, flen)
  /\ ~YAPB_check_complete(mem, PBase, flen - 1)
  /\ YAPB_check_complete(mem, PBase, flen + 1)

\* C16: on a packet set up by initialize and not finalized, after any
\* pushes, successful or failing, the four header bytes are zero, load over
\* the buffer returns InvalidPacket for every size that holds a header,
\* check_complete returns false for every count of bytes, and no push
\* writes to offsets 0..3.
C16_UnfinalizedHeaderZero ==
  (Live("P") /\ pk["P"].mode = YAPB_MODE_WRITE /\ ~pk["P"].finalized) =>
    /\ \A k \in 1..YAPB_HEADER_SIZE : mem["P"][k] = 0
    /\ \A size \in YAPB_HEADER_SIZE..Len(mem["P"]) :
         YAPB_load(mem, UninitPkt, PBase, size).r = YAPB_ERR_INVALID_PACKET
    /\ \A n \in 0..Len(mem["P"]) : ~YAPB_check_complete(mem, PBase, n)
    /\ \A c \in PushCalls(mem, pk["P"]) :
         /\ c.wr \cap Span(0, YAPB_HEADER_SIZE) = {}
         /\ \A k \in 1..YAPB_HEADER_SIZE : c.m["P"][k] = 0

\* An unfinalized packet with two elements written and a push refused.
C16_Witness ==
  /\ Live("P") /\ pk["P"].mode = YAPB_MODE_WRITE /\ ~pk["P"].finalized
  /\ Len(wrote) = 2
  /\ ret["P"] = YAPB_ERR_BUFFER_TOO_SMALL
  /\ pk["P"].pos > YAPB_HEADER_SIZE

\* C17: push_nested(parent, child) returns NullPointer and leaves the
\* parent and memory unchanged whenever get_buffer gives no buffer for the
\* child, which is exactly when the child is a NULL handle or an unfinalized
\* write packet; a read-mode child and a finalized write child are never
\* refused with NullPointer and are copied into a parent that is writable
\* with room; every refused push_nested leaves buffer and position alone.
C17_NestedNeedsAvailableChild ==
  \A h \in Handles :
    Live(h) =>
      \A n \in NestedArgs :
        LET p == pk[h]
            x == YAPB_push_nested(mem, p, n)
            len == IF n.mode = YAPB_MODE_READ THEN n.buffer_size ELSE n.pos
            hidden == n.st = "null" \/ (n.mode = YAPB_MODE_WRITE /\ ~n.finalized)
        IN
        /\ (YAPB_get_buffer(n, FALSE, Seed.size).buf = NullPtr) <=> hidden
        /\ hidden => (x.r = YAPB_ERR_NULL_PTR /\ x.p = p /\ x.m = mem)
        /\ ~hidden =>
             /\ x.r # YAPB_ERR_NULL_PTR
             /\ (/\ p.error = YAPB_OK /\ p.mode = YAPB_MODE_WRITE /\ ~p.finalized
                 /\ p.pos + 1 + len <= p.buffer_size) =>
                  /\ x.r = YAPB_OK
                  /\ x.p.pos = p.pos + 1 + len
                  /\ Bytes(x.m, p.buffer, p.pos, 1 + len) =
                       <<YAPB_NESTED_PKT>> \o Bytes(mem, n.buffer, 0, len)
        /\ x.r < 0 => (x.m = mem /\ x.p.pos = p.pos)

\* A write packet that took a nested child and then returned NullPointer
\* to a push, without latching an error.
C17_Witness ==
  /\ Live("P") /\ pk["P"].mode = YAPB_MODE_WRITE /\ ~pk["P"].finalized
  /\ Len(wrote) >= 1
  /\ wrote[1].t = YAPB_NESTED_PKT
  /\ ret["P"] = YAPB_ERR_NULL_PTR
  /\ pk["P"].error = YAPB_OK

\* C18 (checked under SpecNest): B pushes integers x, y and is finalized; A
\* pushes B as nested, then z, and is finalized; every step returns OK.
\* After load(A): pop_nested returns OK, the pop of z's type on A then
\* returns z (with COMPLETE), and on the child the pop of x's type returns x
\* with OK, the pop of y's type returns y with COMPLETE, and a further pop
\* of any primitive type or pop_next returns NoMoreElements.
C18_NestedRoundTrip ==
  /\ ret["P"] = 0 /\ ret["C"] = 0
  /\ \A h \in Handles :
       pk[h].st = "uninit" =>
         YAPB_initialize(mem, pk[h], [b |-> IF h = "P" THEN "P" ELSE "B", o |-> 0],
                         Len(mem[IF h = "P" THEN "P" ELSE "B"])).r = YAPB_OK
  /\ (NestBuildingB(0) \/ NestBuildingB(1)) =>
       \A a \in NestInts : PushT(a.T, mem, pk["C"], a.v).r = YAPB_OK
  /\ NestBuildingB(2) => YAPB_finalize(mem, pk["C"], FALSE, Seed.size).r = YAPB_OK
  /\ NestBuildingA(2) => YAPB_push_nested(mem, pk["P"], pk["C"]).r = YAPB_OK
  /\ NestBuildingA(3) => \A a \in NestInts : PushT(a.T, mem, pk["P"], a.v).r = YAPB_OK
  /\ NestBuildingA(4) => YAPB_finalize(mem, pk["P"], FALSE, Seed.size).r = YAPB_OK
  /\ Finalized => YAPB_load(mem, pk["P"], PBase, flen).r = YAPB_OK
  /\ NestReading("P", 0) => YAPB_pop_nested(mem, pk["P"], pk["C"]).r = YAPB_OK
  /\ NestReading("P", 1) =>
       LET x == PopT(wrote[4].t, mem, pk["P"])
       IN x.r = YAPB_STS_COMPLETE /\ x.out = wrote[4].v
  /\ NestReading("P", 2) => log["P"][2] = wrote[4]
  /\ \A k \in 0..1 :
       NestReading("C", k) =>
         LET x == PopT(wrote[k + 1].t, mem, pk["C"])
         IN /\ x.r = (IF k = 1 THEN YAPB_STS_COMPLETE ELSE YAPB_OK)
            /\ x.out = wrote[k + 1].v
            /\ \A i \in 1..k : log["C"][i] = wrote[i]
  /\ NestReading("C", 2) =>
       /\ log["C"] = SubSeq(wrote, 1, 2)
       /\ \A T \in RTTypes : PopT(T, mem, pk["C"]).r = YAPB_ERR_NO_MORE_ELEMENTS
       /\ YAPB_pop_next(mem, pk["C"], FALSE, Seed.elem).r = YAPB_ERR_NO_MORE_ELEMENTS

\* x = 65535 (uint16) and y = -128 (int8) came back from the child, and
\* z = 16909060 (int32) from A.
C18_Witness ==
  /\ NestReading("C", 2) /\ NestReading("P", 2)
  /\ log["C"] = <<[t |-> "u16", v |-> 65535], [t |-> "i8", v |-> -128]>>
  /\ log["P"][2] = [t |-> "i32", v |-> 16909060]
  /\ wrote[4] = log["P"][2]

\* C19: a pop_nested that succeeds on a packet at position q, where the four
\* bytes at q+1 hold L big-endian, leaves in out a read-mode packet over the
\* parent's own bytes from q+1 on (same buffer, no copy) with
\* buffer_size = L, pos = HEADER_SIZE, error = OK and q+1+L <= the parent's
\* buffer_size, and moves the parent to position q+1+L and nothing else;
\* the child P gave out lies inside P's view.
C19_NestedChildIsParentRange ==
  /\ \A h \in Handles :
       InRead(h) =>
         \A out \in Outs(h) :
           LET p == pk[h]
               q == p.pos
               x == YAPB_pop_nested(mem, p, out)
               b(k) == Byte(mem, p.buffer, q + 1 + k)
               L == b(2) * 256 + b(3)
           IN
           x.r >= 0 =>
             /\ b(0) = 0 /\ b(1) = 0
             /\ x.out = [st |-> "live",
                         buffer |-> [b |-> p.buffer.b, o |-> p.buffer.o + q + 1],
                         buffer_size |-> L, pos |-> YAPB_HEADER_SIZE,
                         mode |-> YAPB_MODE_READ, error |-> YAPB_OK, finalized |-> FALSE]
             /\ q + 1 + L <= p.buffer_size
             /\ x.p = [p EXCEPT !.pos = q + 1 + L]
             /\ x.r = (IF q + 1 + L = p.buffer_size THEN YAPB_STS_COMPLETE ELSE YAPB_OK)
  /\ (InRead("P") /\ InRead("C")) =>
       /\ pk["C"].buffer.b = pk["P"].buffer.b
       /\ pk["C"].buffer.o > pk["P"].buffer.o + YAPB_HEADER_SIZE
       /\ pk["C"].buffer.o + pk["C"].buffer_size <= pk["P"].buffer.o + pk["P"].buffer_size

\* A written packet read back: an int8, then a nested packet taken out at
\* offset 7 of the parent's buffer and read to its end.
C19_Witness ==
  /\ Reloaded /\ InRead("C")
  /\ Len(log["P"]) = 2
  /\ log["P"][2].t = YAPB_NESTED_PKT
  /\ pk["C"].buffer = [b |-> "P", o |-> 7]
  /\ pk["P"].pos = 7 + pk["C"].buffer_size
  /\ Len(log["C"]) = 1

\* C20: a pop_blob that succeeds on a packet at position q returns the
\* length n held big-endian in the two bytes at q+1 and a pointer to offset
\* q+3 of the packet's own buffer (no copy), with q+3+n <= buffer_size, and
\* moves the packet to q+3+n; when the element at the cursor of a reloaded
\* packet was pushed with push_blob(data, n), n = 0 with NULL data
\* included, pop_blob succeeds and the n bytes at the pointer equal data.
C20_BlobBorrowsBuffer ==
  /\ \A h \in Handles :
       InRead(h) =>
         LET p == pk[h]
             q == p.pos
             x == YAPB_pop_blob(mem, p, FALSE, Seed.ptr, FALSE, Seed.len)
             n == Byte(mem, p.buffer, q + 1) * 256 + Byte(mem, p.buffer, q + 2)
         IN
         x.r >= 0 =>
           /\ x.len = n
           /\ x.data = [b |-> p.buffer.b, o |-> p.buffer.o + q + 3]
           /\ q + 3 + n <= p.buffer_size
           /\ x.p = [p EXCEPT !.pos = q + 3 + n]
  /\ (/\ Reloaded /\ pk["P"].error = YAPB_OK /\ Len(log["P"]) < Len(wrote)
      /\ wrote[Len(log["P"]) + 1].t = YAPB_BLOB) =>
       LET x == YAPB_pop_blob(mem, pk["P"], FALSE, Seed.ptr, FALSE, Seed.len)
           data == wrote[Len(log["P"]) + 1].v
       IN
       /\ x.r >= 0
       /\ x.len = Len(data)
       /\ x.data.b = "P"
       /\ \A i \in 1..Len(data) : mem["P"][x.data.o + i] = data[i]

\* The blob 1, 2, 3 written and read back, and a second element, an empty
\* blob, about to be read.
C20_Witness ==
  /\ Reloaded
  /\ Len(wrote) = 2 /\ Len(log["P"]) = 1
  /\ log["P"][1].t = YAPB_BLOB
  /\ log["P"][1].v = <<1, 2, 3>>
  /\ wrote[2].t = YAPB_BLOB
  /\ wrote[2].v = <<>>
  /\ pk["P"].pos = 10

\* C21: on a packet built from the successful pushes in wrote (any mix of
\* primitives, blobs and nested packets), finalized and loaded,
\* get_elem_count returns OK with the count Len(wrote), a nested packet
\* counting as one, in every state reached afterwards: before any pop,
\* between pops, after the last pop and after a failed pop; the call
\* leaves the packet as it is.
C21_ElemCountIsPushCount ==
  Reloaded =>
    LET x == YAPB_get_elem_count(mem, pk["P"], FALSE, Seed.len) IN
    /\ x.r = YAPB_OK
    /\ x.out_count = Len(wrote)
    /\ \A c \in CountCalls(mem, pk["P"]) : c.p = pk["P"] /\ c.m = mem

\* A nested packet holding an element, then an int8, written and loaded;
\* the nested packet is popped and the count is still 2.
C21_Witness ==
  /\ Reloaded
  /\ Len(wrote) = 2
  /\ wrote[1].t = YAPB_NESTED_PKT /\ Len(wrote[1].v) = 6
  /\ Len(log["P"]) = 1
  /\ pk["P"].pos = 11
  /\ YAPB_get_elem_count(mem, pk["P"], FALSE, Seed.len).out_count = 2

\* C22: every successful pop (typed or pop_next) returns COMPLETE exactly
\* when the position after it equals buffer_size, and OK otherwise; on a
\* loaded well-formed packet of n >= 1 elements with k of them popped, the
\* pop of element k+1 returns OK when k+1 < n and COMPLETE when k+1 = n, and
\* with all n popped the next pop, of any type, returns NoMoreElements.
C22_CompletionStatus ==
  /\ \A h \in Handles :
       InRead(h) =>
         \A c \in PopCalls(mem, pk[h], Outs(h)) \cup NextCalls(mem, pk[h]) :
           c.r >= 0 =>
             c.r = (IF c.p.pos = pk[h].buffer_size THEN YAPB_STS_COMPLETE ELSE YAPB_OK)
  /\ (Reloaded /\ pk["P"].error = YAPB_OK /\ Len(wrote) >= 1) =>
       LET n == Len(wrote)
           k == Len(log["P"])
       IN
       \A c \in PopCalls(mem, pk["P"], Outs("P")) \cup NextCalls(mem, pk["P"]) :
         ~c.nul =>
           IF k = n THEN c.r = YAPB_ERR_NO_MORE_ELEMENTS
           ELSE (c.op = "pop_next" \/ c.t = wrote[k + 1].t) =>
                  c.r = (IF k + 1 = n THEN YAPB_STS_COMPLETE ELSE YAPB_OK)

\* C23: on a packet with no latched error, every pop (primitive, blob,
\* nested, pop_next) with its arguments present returns InvalidMode in
\* write mode, and every push with its arguments present (a nested child
\* with an available buffer) returns InvalidMode in read mode; the call
\* latches InvalidMode and changes nothing else, whatever the buffer holds
\* and whatever room is left.
C23_WrongModeIsInvalidMode ==
  \A h \in Handles :
    (Live(h) /\ pk[h].error = YAPB_OK) =>
      LET latched == [pk[h] EXCEPT !.error = YAPB_ERR_INVALID_MODE] IN
      /\ pk[h].mode = YAPB_MODE_WRITE =>
           \A c \in PopCalls(mem, pk[h], Outs(h)) \cup NextCalls(mem, pk[h]) :
             ~c.nul => (c.r = YAPB_ERR_INVALID_MODE /\ c.p = latched)
      /\ pk[h].mode = YAPB_MODE_READ =>
           /\ \A c \in PushCalls(mem, pk[h]) :
                (~c.nul /\ c.t # YAPB_NESTED_PKT) =>
                  (c.r = YAPB_ERR_INVALID_MODE /\ c.p = latched /\ c.m = mem)
           /\ \A n \in NestedArgs :
                YAPB_get_buffer(n, FALSE, Seed.size).buf # NullPtr =>
                  LET x == YAPB_push_nested(mem, pk[h], n)
                  IN x.r = YAPB_ERR_INVALID_MODE /\ x.p = latched /\ x.m = mem

\* C24: on an unfinalized write packet with no latched error, a push with
\* its arguments present succeeds exactly when pos + size <= buffer_size,
\* size being 1 + width for a primitive, 3 + len for a blob and 1 + the
\* child's length for a nested packet; it then moves pos by size and
\* changes no byte outside [pos, pos + size) and nothing else of the
\* packet.  Otherwise it returns BufferTooSmall, latches it and changes
\* neither a byte nor pos.
C24_PushFitsOrBufferTooSmall ==
  (Live("P") /\ pk["P"].mode = YAPB_MODE_WRITE /\ ~pk["P"].finalized
   /\ pk["P"].error = YAPB_OK) =>
    LET p == pk["P"]
        Width(t) == CASE t \in {YAPB_INT8} -> 1 [] t \in {YAPB_INT16} -> 2
                      [] t \in {YAPB_INT32, YAPB_FLOAT} -> 4 [] OTHER -> 8
        Settled(x, size) ==
          IF p.pos + size <= p.buffer_size
          THEN /\ x.r = YAPB_OK
               /\ x.p = [p EXCEPT !.pos = p.pos + size]
               /\ \A b \in DOMAIN mem : \A i \in 1..Len(mem[b]) :
                    (b # "P" \/ i - 1 \notin Span(p.pos, size)) => x.m[b][i] = mem[b][i]
          ELSE /\ x.r = YAPB_ERR_BUFFER_TOO_SMALL
               /\ x.p = [p EXCEPT !.error = YAPB_ERR_BUFFER_TOO_SMALL]
               /\ x.m = mem
    IN
    /\ \A c \in PushCalls(mem, p) :
         (~c.nul /\ c.t \notin {YAPB_BLOB, YAPB_NESTED_PKT}) => Settled(c, 1 + Width(c.t))
    /\ \A a \in BlobArgs : \A dn \in BOOLEAN :
         (a.len = 0 \/ ~dn) => Settled(YAPB_push_blob(mem, p, dn, a.data, a.len), 3 + a.len)
    /\ \A n \in NestedArgs :
         YAPB_get_buffer(n, FALSE, Seed.size).buf # NullPtr =>
           Settled(YAPB_push_nested(mem, p, n),
                   1 + (IF n.mode = YAPB_MODE_READ THEN n.buffer_size ELSE n.pos))

\* Three pushes have filled the buffer to its last byte without error.
C24_Witness ==
  /\ Live("P") /\ pk["P"].mode = YAPB_MODE_WRITE /\ ~pk["P"].finalized
  /\ pk["P"].error = YAPB_OK
  /\ Len(wrote) = 3
  /\ pk["P"].pos = pk["P"].buffer_size

\* C25: the bytes a write packet holds from offset 4 to pos are the pushed
\* elements back to back in push order, each its tag (INT8 0, INT16 1,
\* INT32 2, INT64 3, FLOAT 4, DOUBLE 5, BLOB 14, NESTED 15) followed by the
\* value big-endian (blob: 2-byte big-endian length, then the bytes; nested:
\* the child's bytes with its header); after finalize bytes 0..3 hold the
\* returned length big-endian and the length is pos; and an unsigned push
\* writes the tag of its width and the value's bytes big-endian.
C25_WireFormat ==
  LET p == pk["P"]
      B2(w) == <<w \div 256, w % 256>>
      B4(u) == B2(u.hi) \o B2(u.lo)
      Enc(e) ==
        CASE e.t = YAPB_INT8 -> <<0, (e.v + 256) % 256>>
          [] e.t = YAPB_INT16 -> <<1>> \o B2((e.v + 65536) % 65536)
          [] e.t = YAPB_INT32 ->
               <<2>> \o B2(((e.v \div 65536) + 65536) % 65536) \o B2(e.v % 65536)
          [] e.t = YAPB_INT64 -> <<3>> \o B4(e.v.h) \o B4(e.v.l)
          [] e.t = YAPB_FLOAT -> <<4>> \o B4(e.v)
          [] e.t = YAPB_DOUBLE -> <<5>> \o B4(e.v.h) \o B4(e.v.l)
          [] e.t = YAPB_BLOB -> <<14>> \o B2(Len(e.v)) \o e.v
          [] e.t = YAPB_NESTED_PKT -> <<15>> \o e.v
      Cat[i \in 0..Len(wrote)] == IF i = 0 THEN <<>> ELSE Cat[i - 1] \o Enc(wrote[i])
      Written(x) == [i \in 1..Cardinality(x.wr) |-> x.m["P"][p.pos + i]]
  IN
  /\ (Live("P") /\ p.mode = YAPB_MODE_WRITE) =>
       /\ Bytes(mem, PBase, YAPB_HEADER_SIZE, p.pos - YAPB_HEADER_SIZE) = Cat[Len(wrote)]
       /\ p.finalized =>
            /\ flen = p.pos
            /\ Bytes(mem, PBase, 0, flen) = <<0, 0>> \o B2(flen) \o Cat[Len(wrote)]
  /\ Reloaded =>
       Bytes(mem, PBase, 0, flen) = <<0, 0>> \o B2(flen) \o Cat[Len(wrote)]
  /\ (Live("P") /\ p.mode = YAPB_MODE_WRITE /\ ~p.finalized /\ p.error = YAPB_OK
      /\ p.pos + 9 <= p.buffer_size) =>
       /\ \A v \in {0, 5, 127, 128, 255} :
            Written(YAPB_push_u8(mem, p, FALSE, v)) = <<0, v>>
       /\ \A v \in {0, 258, 32767, 32768, 65535} :
            Written(YAPB_push_u16(mem, p, FALSE, v)) = <<1>> \o B2(v)
       /\ \A u \in U32Pats :
            Written(YAPB_push_u32(mem, p, FALSE, u)) = <<2>> \o B4(u)
       /\ \A u \in U64Pats :
            Written(YAPB_push_u64(mem, p, FALSE, u)) = <<3>> \o B4(u.h) \o B4(u.l)

\* int16 258 and int32 -2 pushed and finalized: the twelve bytes
\* 00 00 00 0C 01 01 02 02 FF FF FF FE.
C25_Witness ==
  /\ Finalized
  /\ Len(wrote) = 2
  /\ wrote[1].t = YAPB_INT16 /\ wrote[2].t = YAPB_INT32
  /\ flen = 12
  /\ Bytes(mem, PBase, 0, flen) = <<0, 0, 0, 12, 1, 1, 2, 2, 255, 255, 255, 254>>

\* C26: a pop of any type, pop_next included, that returns a negative code
\* or YAPB_STS_COMPLETE leaves its output as the caller pre-seeded it.
C26_OutputKeptOnErrorOrComplete ==
  \A h \in Handles :
    Live(h) =>
      \A c \in PopCalls(mem, pk[h], Outs(h)) \cup NextCalls(mem, pk[h]) :
        (c.r < 0 \/ c.r = YAPB_STS_COMPLETE) => c.same

\* C27: no operation loops forever, whatever the buffer holds.  Scan: from
\* every offset of a read-mode packet, one iteration of the element-count
\* scan either fails or moves the scan offset forward to at most
\* buffer_size, so the scan from the header's end makes at most
\* buffer_size - 4 iterations and reads inside the buffer only.  Pop loop:
\* every pop or pop_next that returns a non-negative code has moved the
\* position forward, to at most buffer_size, so a loop that repeats
\* pop_next while it returns a non-negative code runs its body at most
\* buffer_size - position times.
C27_ScanAndPopLoopEnd ==
  \A h \in Handles :
    Live(h) =>
      LET p == pk[h] IN
      /\ p.mode = YAPB_MODE_READ =>
           /\ \A q \in YAPB_HEADER_SIZE..(p.buffer_size - 1) :
                LET s == ScanSkip(mem, p, q + 1, Byte(mem, p.buffer, q)) IN
                (s.ok /\ q + 1 + s.skip <= p.buffer_size) => q + 1 + s.skip > q
           /\ LET s == ScanLoop(mem, p, YAPB_HEADER_SIZE, 0, 0) IN
              /\ s.steps <= p.buffer_size - YAPB_HEADER_SIZE
              /\ s.rd \subseteq YAPB_HEADER_SIZE..(p.buffer_size - 1)
      /\ \A c \in PopCalls(mem, p, Outs(h)) \cup NextCalls(mem, p) :
           c.r >= 0 => (c.p.pos > p.pos /\ c.p.pos <= p.buffer_size)
      /\ LET n == PopNextLoop(mem, p, BufCap) IN
         /\ n >= 0
         /\ p.pos <= p.buffer_size => n <= p.buffer_size - p.pos

\* A reloaded packet of three elements, not yet popped: the scan and the
\* pop_next loop both make three iterations.
C27_Witness ==
  /\ Reloaded /\ Len(wrote) = 3 /\ pk["P"].pos = YAPB_HEADER_SIZE
  /\ pk["P"].error = YAPB_OK
  /\ ScanLoop(mem, pk["P"], YAPB_HEADER_SIZE, 0, 0).steps = 3
  /\ PopNextLoop(mem, pk["P"], BufCap) = 3

\* C28: a parent P and the child C that a pop_nested on P gave out are
\* independent cursors.  While both are in read mode, no step changes the
\* buffers, and a step that changes C's packet leaves P's packet alone
\* unless it is a successful pop_nested on P that was handed C's storage as
\* its output; so a pop on one never moves the other or latches an error in
\* it.  In every interleaving the pops that succeeded so far on either
\* packet returned the types and values that popping this packet alone from
\* its first element returns, and left it at the position reached that way.
C28_IndependentCursors ==
  /\ [](\A h \in Handles :
          (InRead("P") /\ InRead("C")) =>
            LET n == Len(log[h])
                Alone[k \in 0..n] ==
                  IF k = 0
                  THEN [r |-> YAPB_OK, out |-> Seed.elem, rd |-> {},
                        p |-> [pk[h] EXCEPT !.pos = YAPB_HEADER_SIZE, !.error = YAPB_OK]]
                  ELSE YAPB_pop_next(mem, Alone[k - 1].p, FALSE, Seed.elem)
            IN
            /\ \A k \in 1..n :
                 /\ Alone[k].r >= 0
                 /\ Alone[k].out.type = log[h][k].t
                 /\ ElemValue(mem, Alone[k].out) = log[h][k].v
            /\ pk[h].error = YAPB_OK => pk[h].pos = Alone[n].p.pos)
  /\ [][(InRead("P") /\ InRead("C")) =>
          /\ mem' = mem
          /\ pk'["C"] # pk["C"] =>
               \/ pk'["P"] = pk["P"]
               \/ LET x == YAPB_pop_nested(mem, pk["P"], pk["C"]) IN
                  x.r >= 0 /\ pk'["P"] = x.p /\ pk'["C"] = x.out]_vars

\* The parent holds a nested packet and an int8; the child was taken out,
\* and then both the child's int8 and the parent's int8 were popped.
C28_Witness ==
  /\ Reloaded /\ InRead("C")
  /\ Len(log["P"]) = 2
  /\ log["P"][1].t = YAPB_NESTED_PKT /\ log["P"][2].t = YAPB_INT8
  /\ Len(log["C"]) = 1 /\ log["C"][1].t = YAPB_INT8
  /\ pk["P"].pos = pk["P"].buffer_size
  /\ pk["C"].pos = pk["C"].buffer_size

\* C29: on a read-mode packet with no latched error, pop_next does what
\* the typed pop for the tag t at the cursor does: it returns the same
\* status and leaves the packet with the same position and error, sets
\* out.type to t, and on success holds the value that typed pop returns.
\* With the cursor at the end it returns NoMoreElements and latches it; on
\* a tag that is no element type (0x06..0x0D, above 0x0F) it returns
\* InvalidPacket and latches it, and the position stays.
C29_PopNextRefinesTypedPops ==
  \A h \in Handles :
    (InRead(h) /\ pk[h].error = YAPB_OK) =>
      LET p == pk[h]
          n == YAPB_pop_next(mem, p, FALSE, Seed.elem)
          t == Byte(mem, p.buffer, p.pos)
          As(x, k, v) ==
            /\ n.r = x.r /\ n.p = x.p /\ n.out.type = t
            /\ x.r >= 0 => n.out.val = [k |-> k, v |-> v]
          i8 == YAPB_pop_i8(mem, p, FALSE, Seed.int)
          i16 == YAPB_pop_i16(mem, p, FALSE, Seed.int)
          i32 == YAPB_pop_i32(mem, p, FALSE, Seed.int)
          i64 == YAPB_pop_i64(mem, p, FALSE, Seed.u64)
          f == YAPB_pop_float(mem, p, FALSE, Seed.u32)
          d == YAPB_pop_double(mem, p, FALSE, Seed.u64)
          b == YAPB_pop_blob(mem, p, FALSE, Seed.ptr, FALSE, Seed.len)
          c == YAPB_pop_nested(mem, p, UninitPkt)
      IN
      IF p.pos >= p.buffer_size THEN
        /\ n.r = YAPB_ERR_NO_MORE_ELEMENTS
        /\ n.p = [p EXCEPT !.error = YAPB_ERR_NO_MORE_ELEMENTS]
        /\ n.out = Seed.elem
      ELSE
        CASE t = YAPB_INT8 -> As(i8, "i8", i8.out)
          [] t = YAPB_INT16 -> As(i16, "i16", i16.out)
          [] t = YAPB_INT32 -> As(i32, "i32", i32.out)
          [] t = YAPB_INT64 -> As(i64, "i64", i64.out)
          [] t = YAPB_FLOAT -> As(f, "f", f.out)
          [] t = YAPB_DOUBLE -> As(d, "d", d.out)
          [] t = YAPB_BLOB -> As(b, "blob", [data |-> b.data, len |-> b.len])
          [] t = YAPB_NESTED_PKT -> As(c, "nested", c.out)
          [] OTHER ->
               /\ t \in 6..13 \/ t > 15
               /\ n.r = YAPB_ERR_INVALID_PACKET
               /\ n.p = [p EXCEPT !.error = YAPB_ERR_INVALID_PACKET]
               /\ n.out.type = t

\* A reloaded packet with its first element popped and the cursor at a
\* float: pop_next delivers it with out.type = YAPB_FLOAT.
C29_Witness ==
  /\ Reloaded /\ pk["P"].error = YAPB_OK
  /\ Len(wrote) >= 2 /\ Len(log["P"]) = 1
  /\ wrote[2].t = YAPB_FLOAT
  /\ LET n == YAPB_pop_next(mem, pk["P"], FALSE, Seed.elem) IN
     n.r >= 0 /\ n.out.type = YAPB_FLOAT /\ n.out.val = [k |-> "f", v |-> wrote[2].v]

\* C30: finalize does not look at the sticky error.  On a write-mode packet
\* that is not finalized and has an error latched, finalize returns OK,
\* stores the position in the header, reports it as the length and keeps
\* the error; the bytes then load as a packet of that length whose element
\* count is the number of pushes that succeeded, and popping it to its end
\* returns the values of these pushes, in push order.  The same holds of
\* the bytes of a packet that was finalized with an error latched.
C30_FinalizeIgnoresStickyError ==
  LET p == pk["P"]
      Holds(m, size) ==
        LET l == YAPB_load(m, UninitPkt, PBase, size)
            n == Len(wrote)
            Rd[k \in 0..n] ==
              IF k = 0 THEN [r |-> YAPB_OK, out |-> Seed.elem, rd |-> {}, p |-> l.p]
              ELSE YAPB_pop_next(m, Rd[k - 1].p, FALSE, Seed.elem)
            cnt == YAPB_get_elem_count(m, l.p, FALSE, Seed.len)
        IN
        /\ l.r = YAPB_OK /\ l.p.buffer_size = size
        /\ cnt.r = YAPB_OK /\ cnt.out_count = n
        /\ \A k \in 1..n :
             /\ Rd[k].r = (IF k = n THEN YAPB_STS_COMPLETE ELSE YAPB_OK)
             /\ Rd[k].out.type = wrote[k].t
             /\ ElemValue(m, Rd[k].out) = wrote[k].v
        /\ Rd[n].p.pos = size
  IN
  (Live("P") /\ p.mode = YAPB_MODE_WRITE /\ p.error < 0) =>
    IF ~p.finalized THEN
      \A lenNull \in BOOLEAN :
        LET x == YAPB_finalize(mem, p, lenNull, Seed.size) IN
        /\ x.r = YAPB_OK
        /\ x.p = [p EXCEPT !.finalized = TRUE]
        /\ x.out_len = (IF lenNull THEN Seed.size ELSE p.pos)
        /\ Bytes(x.m, p.buffer, 0, YAPB_HEADER_SIZE) = write_u32(U32OfSize(p.pos))
        /\ Holds(x.m, p.pos)
    ELSE flen = p.pos /\ Holds(mem, flen)

\* Two pushes succeeded, a third found the buffer too small and latched
\* the error, and finalize then stamped the length of the two elements.
C30_Witness ==
  /\ Finalized /\ pk["P"].error = YAPB_ERR_BUFFER_TOO_SMALL
  /\ Len(wrote) = 2
  /\ flen = pk["P"].pos
  /\ read_u32(mem, PBase, 0) = U32OfSize(flen)

\* C31: on a packet as load left it, whatever its bytes, a get_elem_count
\* that returns OK with count n means that n successive pop_next calls
\* succeed, the n-th with YAPB_STS_COMPLETE and the ones before it with
\* YAPB_OK, and that one more pop_next returns NoMoreElements.
C31_ScanAgreesWithCursor ==
  \A h \in Handles :
    (InRead(h) /\ pk[h].pos = YAPB_HEADER_SIZE /\ pk[h].error = YAPB_OK) =>
      LET cnt == YAPB_get_elem_count(mem, pk[h], FALSE, Seed.len)
          n == cnt.out_count
          Rd[k \in 0..(n + 1)] ==
            IF k = 0 THEN [r |-> YAPB_OK, out |-> Seed.elem, rd |-> {}, p |-> pk[h]]
            ELSE YAPB_pop_next(mem, Rd[k - 1].p, FALSE, Seed.elem)
      IN
      cnt.r = YAPB_OK =>
        /\ \A k \in 1..n :
             Rd[k].r = (IF k = n THEN YAPB_STS_COMPLETE ELSE YAPB_OK)
        /\ Rd[n + 1].r = YAPB_ERR_NO_MORE_ELEMENTS

\* C32: a typed pop or a pop_next that returns a negative code leaves the
\* packet's position where it was, on every failure path.
C32_FailedPopKeepsPosition ==
  \A h \in Handles :
    Live(h) =>
      \A c \in PopCalls(mem, pk[h], Outs(h)) \cup NextCalls(mem, pk[h]) :
        c.r < 0 => c.p.pos = pk[h].pos

\* C33: a read-mode packet whose sticky error is OK, NoMoreElements,
\* TypeMismatch or InvalidPacket, as it is after load, keeps it among these
\* four under every typed pop and every pop_next, and a pop that is given
\* its outputs returns a non-negative status or one of the three codes:
\* corrupt input is never reported with a write-side code.
C33_ReadSideErrorCodes ==
  LET ReadSide == {YAPB_OK, YAPB_ERR_NO_MORE_ELEMENTS, YAPB_ERR_TYPE_MISMATCH,
                   YAPB_ERR_INVALID_PACKET}
  IN
  \A h \in Handles :
    (InRead(h) /\ pk[h].error \in ReadSide) =>
      \A c \in PopCalls(mem, pk[h], Outs(h)) \cup NextCalls(mem, pk[h]) :
        /\ c.p.error \in ReadSide
        /\ ~c.nul => (c.r >= 0 \/ c.r \in ReadSide)

\* C34: a get_elem_count that returns YAPB_OK on a read-mode packet of n
\* well-formed elements has stored n as the count, also for n >= 2^16.
C34_CountNotTruncated ==
  (scan.at = "returned" /\ scan.r = YAPB_OK) =>
    scan.out_count = (pk["P"].buffer_size - YAPB_HEADER_SIZE) \div 2

====
